---- MODULE Spec2Model ----
(***************************************************************************)
(* Model of the interactive list/dialog engine of stu's object list page   *)
(* (src/src/pages/object_list.rs): the modal view-state machine, the       *)
(* filter/sort projection over the master item list and the list cursor.   *)
(***************************************************************************)
EXTENDS Integers, Sequences, FiniteSets, TLC

\* ------------------------------------------------------------------------
\* Bounds of the model
\* ------------------------------------------------------------------------
\* longest master item list handed to ObjectListPage::new
MaxItems == 3
\* longest content of a text input buffer that a keystroke may still extend
MaxInput == 2
\* longest remainder of a path handed to the dialog wrapping helpers
MaxRest == 5
\* widest dialog text column the wrapping helpers are asked for
MaxWidth == 7

\* ------------------------------------------------------------------------
\* Strings are sequences of one-character strings
\* ------------------------------------------------------------------------
\* byte order of the characters that occur in the model
CharOrd(c) ==
    CASE c = " " -> 32
      [] c = "/" -> 47
      [] c = "a" -> 97
      [] c = "b" -> 98
      [] OTHER   -> 127

Min(a, b) == IF a <= b THEN a ELSE b

Max(a, b) == IF a >= b THEN a ELSE b

\* Ordering::Less / Equal / Greater as -1 / 0 / 1
CmpInt(a, b) == IF a < b THEN -1 ELSE IF a > b THEN 1 ELSE 0

\* str::cmp : lexicographic comparison by bytes
RECURSIVE CmpStr(_, _)
CmpStr(s, t) ==
    IF s = <<>> /\ t = <<>> THEN 0
    ELSE IF s = <<>> THEN -1
    ELSE IF t = <<>> THEN 1
    ELSE IF CharOrd(Head(s)) # CharOrd(Head(t))
         THEN CmpInt(CharOrd(Head(s)), CharOrd(Head(t)))
         ELSE CmpStr(Tail(s), Tail(t))

\* Option<T>::cmp with None as <<>> and Some(n) as <<n>> : None < Some(_)
CmpOpt(a, b) ==
    IF a = <<>> /\ b = <<>> THEN 0
    ELSE IF a = <<>> THEN -1
    ELSE IF b = <<>> THEN 1
    ELSE CmpInt(a[1], b[1])

\* str::contains : case-sensitive substring containment
Contains(name, filter) ==
    \E i \in 0..(Len(name) - Len(filter)) :
        SubSeq(name, i + 1, i + Len(filter)) = filter

IsSpace(c) == c = " "

RECURSIVE TrimStart(_)
TrimStart(s) ==
    IF s # <<>> /\ IsSpace(Head(s)) THEN TrimStart(Tail(s)) ELSE s

RECURSIVE TrimEnd(_)
TrimEnd(s) ==
    IF s # <<>> /\ IsSpace(s[Len(s)]) THEN TrimEnd(SubSeq(s, 1, Len(s) - 1)) ELSE s

\* str::trim
Trim(s) == TrimEnd(TrimStart(s))

\* ------------------------------------------------------------------------
\* ObjectItem
\* ------------------------------------------------------------------------
object_dir_item(name) == [kind |-> "Dir", name |-> name]

object_file_item(name, size_byte, last_modified) ==
    [kind |-> "File", name |-> name, size_byte |-> size_byte,
     last_modified |-> last_modified]

\* ObjectItem::name / size_byte / last_modified accessors
ItemName(item) == item.name

ItemSizeByte(item) == IF item.kind = "File" THEN <<item.size_byte>> ELSE <<>>

ItemLastModified(item) == IF item.kind = "File" THEN <<item.last_modified>> ELSE <<>>

\* the items of the model: a directory and two files that tie on
\* last-modified but not on name or size
ItemDirAB == object_dir_item(<<"a", "b">>)

ItemFileB == object_file_item(<<"b">>, 2, 1)

ItemFileAA == object_file_item(<<"a", "a">>, 1, 1)

\* two listings; a page is constructed from the first n items of one of them
Listings ==
    { <<ItemFileAA, ItemFileB, ItemDirAB, ItemFileAA, ItemDirAB, ItemFileB>>,
      <<ItemDirAB, ItemDirAB, ItemFileB, ItemFileAA, ItemDirAB, ItemFileAA>> }

MasterLists ==
    {SubSeq(l, 1, Min(n, Len(l))) : l \in Listings, n \in 0..MaxItems}

\* ------------------------------------------------------------------------
\* ObjectListSortType and the sort picker state
\* ------------------------------------------------------------------------
SortTypes ==
    <<"Default", "NameAsc", "NameDesc", "LastModifiedAsc", "LastModifiedDesc",
      "SizeAsc", "SizeDesc">>

SortTypeSet == {SortTypes[i] : i \in 1..Len(SortTypes)}

\* ObjectListSortDialogState::default / reset : the first entry of the picker
SortDialogState_default == 1

\* ObjectListSortDialogState::selected
SortDialogState_selected(st) == SortTypes[st]

\* ObjectListSortDialogState::select_next : the following entry; at the last
\* entry the picker either wraps to the first or stays (both are modelled)
SortDialogState_select_next(st) ==
    IF st < Len(SortTypes) THEN {st + 1} ELSE {1, st}

\* ObjectListSortDialogState::select_prev
SortDialogState_select_prev(st) ==
    IF st > 1 THEN {st - 1} ELSE {Len(SortTypes), st}

\* ------------------------------------------------------------------------
\* Projection engine
\* ------------------------------------------------------------------------
\* a slip in the NameDesc closure: a and b not swapped
Compare_NameDescNotSwapped(selected, items, a, b) ==
    CASE selected = "Default"          -> CmpInt(a, b)
      [] selected = "NameAsc"          -> CmpStr(ItemName(items[a]), ItemName(items[b]))
      [] selected = "NameDesc"         -> CmpStr(ItemName(items[a]), ItemName(items[b]))
      [] selected = "LastModifiedAsc"  ->
            CmpOpt(ItemLastModified(items[a]), ItemLastModified(items[b]))
      [] selected = "LastModifiedDesc" ->
            CmpOpt(ItemLastModified(items[b]), ItemLastModified(items[a]))
      [] selected = "SizeAsc"          -> CmpOpt(ItemSizeByte(items[a]), ItemSizeByte(items[b]))
      [] selected = "SizeDesc"         -> CmpOpt(ItemSizeByte(items[b]), ItemSizeByte(items[a]))

\* the comparator closure that sort_view_indices hands to sort_by for each
\* sort type; a and b are indices into items
Compare(selected, items, a, b) ==
    CASE selected = "Default"          -> CmpInt(a, b)
      [] selected = "NameAsc"          -> CmpStr(ItemName(items[a]), ItemName(items[b]))
      [] selected = "NameDesc"         -> CmpStr(ItemName(items[b]), ItemName(items[a]))
      [] selected = "LastModifiedAsc"  ->
            CmpOpt(ItemLastModified(items[a]), ItemLastModified(items[b]))
      [] selected = "LastModifiedDesc" ->
            CmpOpt(ItemLastModified(items[b]), ItemLastModified(items[a]))
      [] selected = "SizeAsc"          -> CmpOpt(ItemSizeByte(items[a]), ItemSizeByte(items[b]))
      [] selected = "SizeDesc"         -> CmpOpt(ItemSizeByte(items[b]), ItemSizeByte(items[a]))

\* an unstable sort: x goes in front of the elements it compares equal to
RECURSIVE InsertStable_TiesFirst(_, _, _, _)
InsertStable_TiesFirst(s, x, selected, items) ==
    IF s = <<>> THEN <<x>>
    ELSE IF Compare(selected, items, Head(s), x) >= 0
         THEN <<x>> \o s
         ELSE <<Head(s)>> \o InsertStable_TiesFirst(Tail(s), x, selected, items)

\* insert x into the sorted sequence s behind every element that does not
\* compare greater than x
RECURSIVE InsertStable(_, _, _, _)
InsertStable(s, x, selected, items) ==
    IF s = <<>> THEN <<x>>
    ELSE IF Compare(selected, items, Head(s), x) > 0
         THEN <<x>> \o s
         ELSE <<Head(s)>> \o InsertStable(Tail(s), x, selected, items)

\* an unstable sort: elements that compare equal come out in reverse
RECURSIVE sort_by_Unstable(_, _, _)
sort_by_Unstable(v, selected, items) ==
    IF v = <<>> THEN <<>>
    ELSE InsertStable(sort_by_Unstable(Tail(v), selected, items),
                      Head(v), selected, items)

\* slice::sort / slice::sort_by : a stable sort, elements that compare equal
\* keep the relative order they had in v
RECURSIVE sort_by(_, _, _)
sort_by(v, selected, items) ==
    IF v = <<>> THEN <<>>
    ELSE InsertStable(sort_by(SubSeq(v, 1, Len(v) - 1), selected, items),
                      v[Len(v)], selected, items)

\* ObjectListPage::sort_view_indices, as a function of the fields it reads
sort_view_indices(items, v, sort_state) ==
    sort_by(v, SortDialogState_selected(sort_state), items)

\* the iterator chain of filter_view_indices: the indices of the items whose
\* name contains the filter, in master order
RECURSIVE FilterIndices(_, _, _)
FilterIndices(items, filter, n) ==
    IF n = 0 THEN <<>>
    ELSE LET before == FilterIndices(items, filter, n - 1)
         IN  IF Contains(ItemName(items[n]), filter)
             THEN Append(before, n) ELSE before

\* ------------------------------------------------------------------------
\* Scrollable list cursor (ScrollListState)
\* ------------------------------------------------------------------------
ScrollListState_new(total) ==
    [selected |-> 0, offset |-> 0, total |-> total, height |-> 0]

\* keep the selected row inside the viewport [offset, offset + height)
Scroll(ls, selected) ==
    [ls EXCEPT !.selected = selected,
               !.offset = IF selected < ls.offset THEN selected
                          ELSE IF ls.height > 0 /\ selected >= ls.offset + ls.height
                               THEN selected - ls.height + 1
                               ELSE ls.offset]

ScrollListState_select_next(ls) ==
    IF ls.total = 0 THEN ls ELSE Scroll(ls, Min(ls.selected + 1, ls.total - 1))

ScrollListState_select_prev(ls) ==
    IF ls.total = 0 THEN ls ELSE Scroll(ls, Max(ls.selected - 1, 0))

ScrollListState_select_first(ls) ==
    IF ls.total = 0 THEN ls ELSE Scroll(ls, 0)

ScrollListState_select_last(ls) ==
    IF ls.total = 0 THEN ls ELSE Scroll(ls, ls.total - 1)

ScrollListState_select_next_page(ls) ==
    IF ls.total = 0 THEN ls ELSE Scroll(ls, Min(ls.selected + ls.height, ls.total - 1))

ScrollListState_select_prev_page(ls) ==
    IF ls.total = 0 THEN ls ELSE Scroll(ls, Max(ls.selected - ls.height, 0))

\* rendering the list widget records the viewport height in the state
ScrollListState_render(ls, height) ==
    Scroll([ls EXCEPT !.height = height], ls.selected)

\* filter_view_indices without its trailing sort_view_indices call
filter_view_indices_NoSort(items, filter, sort_state) ==
    LET filtered == FilterIndices(items, filter, Len(items))
    IN  [view_indices |-> filtered,
         list_state   |-> ScrollListState_new(Len(filtered))]

\* filter_view_indices building the list state from the master list length
filter_view_indices_TotalOfItems(items, filter, sort_state) ==
    LET filtered == FilterIndices(items, filter, Len(items))
    IN  [view_indices |-> sort_view_indices(items, filtered, sort_state),
         list_state   |-> ScrollListState_new(Len(items))]

\* ObjectListPage::filter_view_indices, as a function of the fields it reads:
\* the new view_indices and the new list_state
filter_view_indices(items, filter, sort_state) ==
    LET filtered == FilterIndices(items, filter, Len(items))
    IN  [view_indices |-> sort_view_indices(items, filtered, sort_state),
         list_state   |-> ScrollListState_new(Len(filtered))]

\* ------------------------------------------------------------------------
\* Text input buffer (InputDialogState) and raw key events
\* ------------------------------------------------------------------------
KeyChars == {"a", " "}

KeyEvents ==
    {[code |-> "Char", ch |-> c] : c \in KeyChars}
        \cup {[code |-> "Backspace", ch |-> ""], [code |-> "Other", ch |-> ""]}

InputDialogState_new(input) == input

\* InputDialogState::handle_key_event : a character is appended, backspace
\* removes the last character, any other key leaves the text alone
InputDialogState_handle_key_event(input, key_event) ==
    CASE key_event.code = "Char"      -> Append(input, key_event.ch)
      [] key_event.code = "Backspace" ->
            IF input = <<>> THEN input ELSE SubSeq(input, 1, Len(input) - 1)
      [] OTHER                        -> input

\* the model only types into a buffer that is shorter than MaxInput
KeyAllowed(input, key_event) ==
    key_event.code = "Char" => Len(input) < MaxInput

\* ------------------------------------------------------------------------
\* The page: state
\* ------------------------------------------------------------------------
VARIABLES
    object_items,        \* master item list
    view_indices,        \* projection: 1-based indices into object_items
    view_state,          \* the active ViewState variant and its payload
    list_state,          \* ScrollListState of the list
    filter_input_state,  \* text of the filter InputDialogState
    sort_dialog_state,   \* ObjectListSortDialogState
    sent,                \* the AppEventTypes sent on tx by the latest handler call
    last,                \* the handler branch taken by the latest handler call
    before,              \* the view state the latest handler call acted on
    panicked             \* a panic!/unwrap failure has aborted the program

\* one call of a dialog text wrapping helper
VARIABLES
    wrap_s,              \* the argument s
    wrap_max_width,      \* the argument max_width
    wrap_called,         \* the helper that was called, "none" before the call
    wrap_lines           \* the Vec<String> the call returned

page_vars ==
    <<object_items, view_indices, view_state, list_state, filter_input_state,
      sort_dialog_state, sent, last, before, panicked>>

wrap_vars == <<wrap_s, wrap_max_width, wrap_called, wrap_lines>>

\* the enumeration the application runs for the page, when it is tracked:
\* `requested` holds the key of the latest StartLoadAllDownloadObjectList
\* still to be answered, `answered` the key of the request that the latest
\* open_download_confirm_dialog answered
VARIABLES enumeration

\* program start: main and the profile prompt it runs
VARIABLES
    main_pc,             \* the statement of main that runs next
    main_terminal,       \* what main has done to the terminal
    main_ret,            \* the Result main is about to return, <<>> when none yet
    main_result,         \* the Result main returned, <<>> while it runs
    profile_state,       \* text of the InputDialogState of get_profile
    profile_error_msg,   \* error_msg of get_profile
    profile_event,       \* the event the latest event::read of get_profile returned
    profile_result       \* the Result get_profile returned, <<>> while it runs

startup_vars ==
    <<main_pc, main_terminal, main_ret, main_result, profile_state, profile_error_msg,
      profile_event, profile_result>>

other_vars == <<wrap_vars, enumeration, startup_vars>>

vars == <<page_vars, wrap_vars, enumeration, startup_vars>>

\* main is not followed
StartupIdle ==
    /\ main_pc = "none"
    /\ main_terminal = "untouched"
    /\ main_ret = <<>>
    /\ main_result = <<>>
    /\ profile_state = <<>>
    /\ profile_error_msg = <<>>
    /\ profile_event = [kind |-> "None", user_events |-> <<>>]
    /\ profile_result = <<>>

EnumerationUntracked == [tracked |-> FALSE, requested |-> <<>>, answered |-> <<>>]

EnumerationTracked == [tracked |-> TRUE, requested |-> <<>>, answered |-> <<>>]

\* what a handler call that sends `events` in branch `branch` does to the
\* enumeration
EnumerationAfter(events, branch) ==
    IF ~enumeration.tracked THEN enumeration
    ELSE IF branch = "open_download_confirm_dialog"
    THEN [enumeration EXCEPT !.answered = enumeration.requested,
                             !.requested = <<>>]
    ELSE IF events # <<>> /\ events[1].type = "StartLoadAllDownloadObjectList"
    THEN [enumeration EXCEPT !.requested = <<events[1].key>>]
    ELSE enumeration

\* no wrapping helper is being called
WrapIdle ==
    /\ wrap_s = <<>>
    /\ wrap_max_width = 1
    /\ wrap_called = "none"
    /\ wrap_lines = <<>>

\* the directory the page shows
object_key == [bucket_name |-> "bucket", object_path |-> <<<<"b">>>>]

\* ObjectKey::joined_object_path(false) : the segments, each followed by '/'
RECURSIVE joined_object_path(_)
joined_object_path(path) ==
    IF path = <<>> THEN <<>>
    ELSE Head(path) \o <<"/">> \o joined_object_path(Tail(path))

\* payloads the application hands to the dialog-opening callbacks
DownloadObjectLists == {<<"obj1">>, <<"obj1", "obj2">>}

PasteSpecs == {"spec1", "spec2"}

\* ViewState variants
ViewState_Default == [tag |-> "Default"]

ViewState_FilterDialog == [tag |-> "FilterDialog"]

ViewState_SortDialog == [tag |-> "SortDialog"]

ViewState_GoToPathDialog(input) == [tag |-> "GoToPathDialog", input |-> input]

ViewState_CopyDetailDialog(item, selected) ==
    [tag |-> "CopyDetailDialog", item |-> item, selected |-> selected]

ViewState_DownloadConfirmDialog(objs, is_ok, download_as) ==
    [tag |-> "DownloadConfirmDialog", objs |-> objs, is_ok |-> is_ok,
     download_as |-> download_as]

\* the Option of the carried-over object set is <<>> for None, <<objs>> for Some
ViewState_SaveDialog(input, objs) ==
    [tag |-> "SaveDialog", input |-> input, objs |-> objs]

ViewState_PasteConfirmDialog(spec, is_ok) ==
    [tag |-> "PasteConfirmDialog", spec |-> spec, is_ok |-> is_ok]

\* ObjectListPage::new
Init ==
    /\ object_items \in MasterLists
    /\ view_indices = [i \in 1..Len(object_items) |-> i]
    /\ view_state = ViewState_Default
    /\ list_state = ScrollListState_new(Len(object_items))
    /\ filter_input_state = <<>>
    /\ sort_dialog_state = SortDialogState_default
    /\ sent = <<>>
    /\ last = "new"
    /\ before = ViewState_Default
    /\ panicked = FALSE
    /\ WrapIdle
    /\ enumeration = EnumerationUntracked
    /\ StartupIdle

\* ------------------------------------------------------------------------
\* Key routing (handle_user_events! / handle_user_events_with_default!)
\* ------------------------------------------------------------------------
UserEvents ==
    { "ObjectListSelect", "ObjectListBack", "ObjectListDown", "ObjectListUp",
      "ObjectListGoToTop", "ObjectListGoToBottom", "ObjectListPageDown",
      "ObjectListPageUp", "ObjectListRefresh", "ObjectListBucketList",
      "ObjectListManagementConsole", "ObjectListFilter", "ObjectListSort",
      "ObjectListGoToPath", "ObjectListCopyObject", "ObjectListPasteObject",
      "ObjectListCopyDetails", "ObjectListDownloadObject",
      "ObjectListDownloadObjectAs", "ObjectListResetFilter", "Help", "Quit",
      "InputDialogClose", "InputDialogApply", "SelectDialogClose",
      "SelectDialogDown", "SelectDialogUp", "SelectDialogLeft",
      "SelectDialogRight", "SelectDialogSelect" }

\* the user event lists a key is mapped to: no event, one event, or the
\* events of several contexts bound to the same key
UserEventLists ==
    {<<>>} \cup {<<e>> : e \in UserEvents}
           \cup { <<"ObjectListSelect", "InputDialogApply", "SelectDialogSelect">>,
                  <<"InputDialogClose", "SelectDialogClose">>,
                  <<"ObjectListDown", "SelectDialogDown">>,
                  <<"ObjectListUp", "SelectDialogUp">>,
                  <<"ObjectListBack", "SelectDialogLeft">>,
                  <<"ObjectListDown", "ObjectListFilter">> }

non_empty == view_indices # <<>>

\* the match arms without the `if self.non_empty()` guards
Arms_GuardsDropped ==
    CASE view_state.tag = "Default" ->
            { "ObjectListBack", "ObjectListBucketList", "ObjectListFilter",
              "ObjectListSort", "ObjectListGoToPath", "ObjectListPasteObject",
              "Help", "ObjectListResetFilter" }
            \cup (IF TRUE
                  THEN { "ObjectListSelect", "ObjectListDown", "ObjectListUp",
                         "ObjectListGoToTop", "ObjectListGoToBottom",
                         "ObjectListPageDown", "ObjectListPageUp",
                         "ObjectListRefresh", "ObjectListManagementConsole",
                         "ObjectListCopyObject", "ObjectListCopyDetails",
                         "ObjectListDownloadObject", "ObjectListDownloadObjectAs" }
                  ELSE {})
      [] view_state.tag \in {"GoToPathDialog", "FilterDialog", "SaveDialog"} ->
            {"InputDialogClose", "InputDialogApply", "Help"}
      [] view_state.tag \in {"SortDialog", "CopyDetailDialog"} ->
            { "SelectDialogClose", "SelectDialogDown", "SelectDialogUp",
              "SelectDialogSelect", "Help" }
      [] view_state.tag \in {"PasteConfirmDialog", "DownloadConfirmDialog"} ->
            { "SelectDialogClose", "SelectDialogLeft", "SelectDialogRight",
              "SelectDialogSelect", "Help" }

\* the match arms of handle_key that accept a user event in the current state
\* (pattern and `if` guard)
Arms ==
    CASE view_state.tag = "Default" ->
            { "ObjectListBack", "ObjectListBucketList", "ObjectListFilter",
              "ObjectListSort", "ObjectListGoToPath", "ObjectListPasteObject",
              "Help", "ObjectListResetFilter" }
            \cup (IF non_empty
                  THEN { "ObjectListSelect", "ObjectListDown", "ObjectListUp",
                         "ObjectListGoToTop", "ObjectListGoToBottom",
                         "ObjectListPageDown", "ObjectListPageUp",
                         "ObjectListRefresh", "ObjectListManagementConsole",
                         "ObjectListCopyObject", "ObjectListCopyDetails",
                         "ObjectListDownloadObject", "ObjectListDownloadObjectAs" }
                  ELSE {})
      [] view_state.tag \in {"GoToPathDialog", "FilterDialog", "SaveDialog"} ->
            {"InputDialogClose", "InputDialogApply", "Help"}
      [] view_state.tag \in {"SortDialog", "CopyDetailDialog"} ->
            { "SelectDialogClose", "SelectDialogDown", "SelectDialogUp",
              "SelectDialogSelect", "Help" }
      [] view_state.tag \in {"PasteConfirmDialog", "DownloadConfirmDialog"} ->
            { "SelectDialogClose", "SelectDialogLeft", "SelectDialogRight",
              "SelectDialogSelect", "Help" }

\* the macros try the user events in order and run the first arm that
\* accepts one, then return; "NoMatch" when no arm accepts any of them
RECURSIVE Dispatch(_)
Dispatch(user_events) ==
    IF user_events = <<>> THEN "NoMatch"
    ELSE IF Head(user_events) \in Arms THEN Head(user_events)
         ELSE Dispatch(Tail(user_events))

\* some key makes handle_key run the arm of user_event in view state tag
Handles(tag, user_event) ==
    /\ ~panicked
    /\ view_state.tag = tag
    /\ ~(\A user_events \in UserEventLists : Dispatch(user_events) # user_event)

\* the branches whose starting view state is not recorded in `before`: they
\* drop or replace the dialog, or only edit the text of a dialog that carries
\* nothing else
Unrecorded ==
    { "FilterDialog/InputDialogClose", "GoToPathDialog/InputDialogClose",
      "SaveDialog/InputDialogClose", "SortDialog/SelectDialogClose",
      "CopyDetailDialog/SelectDialogClose", "DownloadConfirmDialog/SelectDialogClose",
      "PasteConfirmDialog/SelectDialogClose", "GoToPathDialog/key",
      "FilterDialog/key", "open_download_confirm_dialog", "open_paste_confirm_dialog" }

\* what a handler call leaves behind on tx, and which branch it was
Sends(events, branch) ==
    /\ sent' = events
    /\ last' = branch
    /\ before' = IF branch \in Unrecorded THEN ViewState_Default ELSE view_state
    /\ panicked' = FALSE
    /\ enumeration' = EnumerationAfter(events, branch)
    /\ UNCHANGED <<wrap_vars, startup_vars>>

\* the fields of the page that make up the projection and the cursor
projection == <<view_indices, list_state, filter_input_state, sort_dialog_state>>

\* ------------------------------------------------------------------------
\* Methods of ObjectListPage
\* ------------------------------------------------------------------------
\* the bounds check of current_selected_item (it panics when this fails)
SelectedInRange == list_state.selected < Len(view_indices)

current_selected_item == object_items[view_indices[list_state.selected + 1]]

current_dir_object_key == object_key

current_selected_object_key ==
    [bucket_name |-> object_key.bucket_name,
     object_path |-> Append(object_key.object_path, ItemName(current_selected_item))]

\* the process aborts inside the handler branch
Panics(branch) ==
    /\ panicked' = TRUE
    /\ last' = branch
    /\ before' = view_state
    /\ sent' = <<>>
    /\ UNCHANGED <<object_items, view_state, projection>>
    /\ UNCHANGED other_vars

\* SetFiltered without the list state reset: the cursor stays where it was
SetFiltered_KeepCursor(filter) ==
    LET r == filter_view_indices(object_items, filter, sort_dialog_state)
    IN  /\ view_indices' = r.view_indices
        /\ list_state' = [list_state EXCEPT !.total = Len(r.view_indices)]

\* store the result of filter_view_indices for the filter text `filter`
SetFiltered(filter) ==
    LET r == filter_view_indices(object_items, filter, sort_dialog_state)
    IN  /\ view_indices' = r.view_indices
        /\ list_state' = r.list_state

reset_filter ==
    /\ filter_input_state' = <<>>
    /\ SetFiltered(<<>>)
    /\ UNCHANGED sort_dialog_state

apply_filter ==
    /\ view_state' = ViewState_Default
    /\ SetFiltered(filter_input_state)
    /\ UNCHANGED <<filter_input_state, sort_dialog_state>>

\* close_filter_dialog without the reset_filter call
close_filter_dialog_NoReset ==
    /\ view_state' = ViewState_Default
    /\ UNCHANGED projection

close_filter_dialog ==
    /\ view_state' = ViewState_Default
    /\ reset_filter

\* store the result of sort_view_indices under the picker state sort_state
SetSorted(sort_state) ==
    /\ sort_dialog_state' = sort_state
    /\ view_indices' = sort_view_indices(object_items, view_indices, sort_state)

apply_sort ==
    /\ view_state' = ViewState_Default
    /\ SetSorted(sort_dialog_state)
    /\ UNCHANGED <<list_state, filter_input_state>>

\* close_sort_dialog without reset() and the re-sort: the previewed key stays
close_sort_dialog_KeepsKey ==
    /\ view_state' = ViewState_Default
    /\ UNCHANGED projection

\* close_sort_dialog also rebuilding the list state
close_sort_dialog_ResetsCursor ==
    /\ view_state' = ViewState_Default
    /\ SetSorted(SortDialogState_default)
    /\ list_state' = ScrollListState_new(Len(view_indices))
    /\ UNCHANGED filter_input_state

close_sort_dialog ==
    /\ view_state' = ViewState_Default
    /\ SetSorted(SortDialogState_default)
    /\ UNCHANGED <<list_state, filter_input_state>>

select_next_sort_item ==
    /\ \E st \in SortDialogState_select_next(sort_dialog_state) : SetSorted(st)
    /\ UNCHANGED <<view_state, list_state, filter_input_state>>

select_prev_sort_item ==
    /\ \E st \in SortDialogState_select_prev(sort_dialog_state) : SetSorted(st)
    /\ UNCHANGED <<view_state, list_state, filter_input_state>>

\* the entries of the detail-copy picker for an item
CopyDetailFields(item) ==
    IF item.kind = "Dir" THEN <<"key", "s3_uri", "object_url">>
    ELSE <<"key", "s3_uri", "arn", "object_url", "e_tag">>

\* CopyDetailDialogState::select_next / select_prev : as in the sort picker
CopyDetail_select_next(st) ==
    IF st.selected < Len(CopyDetailFields(st.item)) THEN {st.selected + 1}
    ELSE {1, st.selected}

CopyDetail_select_prev(st) ==
    IF st.selected > 1 THEN {st.selected - 1}
    ELSE {Len(CopyDetailFields(st.item)), st.selected}

\* ------------------------------------------------------------------------
\* handle_key in ViewState::Default
\* ------------------------------------------------------------------------
\* an arm that only sends one event
DefaultSends(user_event, event) ==
    /\ Handles("Default", user_event)
    /\ Sends(<<event>>, "Default/" \o user_event)
    /\ UNCHANGED <<object_items, view_state, projection>>

\* an arm that only moves the cursor
DefaultMoves(user_event, new_list_state) ==
    /\ Handles("Default", user_event)
    /\ list_state' = new_list_state
    /\ Sends(<<>>, "Default/" \o user_event)
    /\ UNCHANGED <<object_items, view_state, view_indices, filter_input_state,
                   sort_dialog_state>>

\* an arm that only opens a dialog
DefaultOpens(user_event, new_view_state) ==
    /\ Handles("Default", user_event)
    /\ view_state' = new_view_state
    /\ Sends(<<>>, "Default/" \o user_event)
    /\ UNCHANGED <<object_items, projection>>

Default_ObjectListSelect ==
    DefaultSends("ObjectListSelect", [type |-> "ObjectListMoveDown"])

Default_ObjectListBack ==
    DefaultSends("ObjectListBack", [type |-> "ObjectListMoveUp"])

Default_ObjectListDown ==
    DefaultMoves("ObjectListDown", ScrollListState_select_next(list_state))

Default_ObjectListUp ==
    DefaultMoves("ObjectListUp", ScrollListState_select_prev(list_state))

Default_ObjectListGoToTop ==
    DefaultMoves("ObjectListGoToTop", ScrollListState_select_first(list_state))

Default_ObjectListGoToBottom ==
    DefaultMoves("ObjectListGoToBottom", ScrollListState_select_last(list_state))

Default_ObjectListPageDown ==
    DefaultMoves("ObjectListPageDown", ScrollListState_select_next_page(list_state))

Default_ObjectListPageUp ==
    DefaultMoves("ObjectListPageUp", ScrollListState_select_prev_page(list_state))

Default_ObjectListRefresh ==
    DefaultSends("ObjectListRefresh", [type |-> "ObjectListRefresh"])

Default_ObjectListBucketList ==
    DefaultSends("ObjectListBucketList", [type |-> "BackToBucketList"])

Default_ObjectListManagementConsole ==
    DefaultSends("ObjectListManagementConsole",
                 [type |-> "ObjectListOpenManagementConsole",
                  key |-> current_dir_object_key])

Default_ObjectListFilter ==
    DefaultOpens("ObjectListFilter", ViewState_FilterDialog)

\* open_sort_dialog also resetting the picker and re-sorting
Default_ObjectListSort_ResetsKey ==
    /\ Handles("Default", "ObjectListSort")
    /\ view_state' = ViewState_SortDialog
    /\ SetSorted(SortDialogState_default)
    /\ Sends(<<>>, "Default/ObjectListSort")
    /\ UNCHANGED <<object_items, list_state, filter_input_state>>

Default_ObjectListSort ==
    DefaultOpens("ObjectListSort", ViewState_SortDialog)

Default_ObjectListGoToPath ==
    DefaultOpens("ObjectListGoToPath",
                 ViewState_GoToPathDialog(InputDialogState_new(
                     joined_object_path(current_dir_object_key.object_path))))

Default_ObjectListCopyObject ==
    IF SelectedInRange
    THEN DefaultSends("ObjectListCopyObject",
                      [type |-> "CopyObject", key |-> current_selected_object_key,
                       item |-> current_selected_item])
    ELSE Handles("Default", "ObjectListCopyObject")
         /\ Panics("Default/ObjectListCopyObject")

\* the paste key issuing the copy itself, with no confirmation dialog
Default_ObjectListPasteObject_PastesDirectly ==
    \E spec \in PasteSpecs :
        DefaultSends("ObjectListPasteObject",
                     [type |-> "PasteObject", spec |-> spec])

Default_ObjectListPasteObject ==
    DefaultSends("ObjectListPasteObject",
                 [type |-> "StartPasteObject", key |-> current_dir_object_key])

Default_ObjectListCopyDetails ==
    IF SelectedInRange
    THEN DefaultOpens("ObjectListCopyDetails",
                      ViewState_CopyDetailDialog(current_selected_item, 1))
    ELSE Handles("Default", "ObjectListCopyDetails")
         /\ Panics("Default/ObjectListCopyDetails")

\* start_download treating a file like a directory: it asks for enumeration
Default_ObjectListDownloadObject_AlwaysEnumerates ==
    IF SelectedInRange
    THEN DefaultSends("ObjectListDownloadObject",
                      [type |-> "StartLoadAllDownloadObjectList",
                       key |-> current_selected_object_key,
                       download_as |-> FALSE])
    ELSE Handles("Default", "ObjectListDownloadObject")
         /\ Panics("Default/ObjectListDownloadObject")

\* start_download
Default_ObjectListDownloadObject ==
    IF SelectedInRange
    THEN IF current_selected_item.kind = "Dir"
         THEN DefaultSends("ObjectListDownloadObject",
                           [type |-> "StartLoadAllDownloadObjectList",
                            key |-> current_selected_object_key,
                            download_as |-> FALSE])
         ELSE DefaultSends("ObjectListDownloadObject",
                           [type |-> "StartDownloadObject",
                            key |-> current_selected_object_key,
                            name |-> ItemName(current_selected_item),
                            size_byte |-> current_selected_item.size_byte])
    ELSE Handles("Default", "ObjectListDownloadObject")
         /\ Panics("Default/ObjectListDownloadObject")

\* start_download_as passing the flag of start_download
Default_ObjectListDownloadObjectAs_FlagFalse ==
    IF SelectedInRange
    THEN IF current_selected_item.kind = "Dir"
         THEN DefaultSends("ObjectListDownloadObjectAs",
                           [type |-> "StartLoadAllDownloadObjectList",
                            key |-> current_selected_object_key,
                            download_as |-> FALSE])
         ELSE DefaultOpens("ObjectListDownloadObjectAs",
                           ViewState_SaveDialog(InputDialogState_new(
                               ItemName(current_selected_item)), <<>>))
    ELSE Handles("Default", "ObjectListDownloadObjectAs")
         /\ Panics("Default/ObjectListDownloadObjectAs")

\* start_download_as opening the save dialog for a directory as well
Default_ObjectListDownloadObjectAs_AsksNameForDir ==
    IF SelectedInRange
    THEN DefaultOpens("ObjectListDownloadObjectAs",
                      ViewState_SaveDialog(InputDialogState_new(
                          ItemName(current_selected_item)), <<>>))
    ELSE Handles("Default", "ObjectListDownloadObjectAs")
         /\ Panics("Default/ObjectListDownloadObjectAs")

\* start_download_as
Default_ObjectListDownloadObjectAs ==
    IF SelectedInRange
    THEN IF current_selected_item.kind = "Dir"
         THEN DefaultSends("ObjectListDownloadObjectAs",
                           [type |-> "StartLoadAllDownloadObjectList",
                            key |-> current_selected_object_key,
                            download_as |-> TRUE])
         ELSE DefaultOpens("ObjectListDownloadObjectAs",
                           ViewState_SaveDialog(InputDialogState_new(
                               ItemName(current_selected_item)), <<>>))
    ELSE Handles("Default", "ObjectListDownloadObjectAs")
         /\ Panics("Default/ObjectListDownloadObjectAs")

Default_ObjectListResetFilter ==
    /\ Handles("Default", "ObjectListResetFilter")
    /\ reset_filter
    /\ Sends(<<>>, "Default/ObjectListResetFilter")
    /\ UNCHANGED <<object_items, view_state>>

\* UserEvent::Help is an arm of every view state
AnyState_Help ==
    /\ Handles(view_state.tag, "Help")
    /\ Sends(<<[type |-> "OpenHelp"]>>, view_state.tag \o "/Help")
    /\ UNCHANGED <<object_items, view_state, projection>>

\* a key without an arm dismissing the active dialog
KeyIgnored_ClosesDialog ==
    /\ ~panicked
    /\ view_state.tag \in {"Default", "SortDialog", "CopyDetailDialog",
                           "DownloadConfirmDialog", "PasteConfirmDialog"}
    /\ ~(\A user_events \in UserEventLists : Dispatch(user_events) # "NoMatch")
    /\ view_state' = ViewState_Default
    /\ Sends(<<>>, view_state.tag \o "/ignored")
    /\ UNCHANGED <<object_items, projection>>

\* handle_user_events! without a default arm: a key none of whose user events
\* has an arm in the current state does nothing
KeyIgnored ==
    /\ ~panicked
    /\ view_state.tag \in {"Default", "SortDialog", "CopyDetailDialog",
                           "DownloadConfirmDialog", "PasteConfirmDialog"}
    /\ ~(\A user_events \in UserEventLists : Dispatch(user_events) # "NoMatch")
    /\ Sends(<<>>, view_state.tag \o "/ignored")
    /\ UNCHANGED <<object_items, view_state, projection>>

\* ------------------------------------------------------------------------
\* handle_key in ViewState::GoToPathDialog
\* ------------------------------------------------------------------------
GoToPathDialog_InputDialogClose ==
    /\ Handles("GoToPathDialog", "InputDialogClose")
    /\ view_state' = ViewState_Default
    /\ Sends(<<>>, "GoToPathDialog/InputDialogClose")
    /\ UNCHANGED <<object_items, projection>>

\* the apply arm without the trim() of the input
GoToPathDialog_InputDialogApply_NoTrim ==
    /\ Handles("GoToPathDialog", "InputDialogApply")
    /\ view_state' = ViewState_Default
    /\ Sends(<<[type |-> "GoToPath",
                key |-> [bucket_name |-> object_key.bucket_name,
                         prefix |-> view_state.input]]>>,
             "GoToPathDialog/InputDialogApply")
    /\ UNCHANGED <<object_items, projection>>

GoToPathDialog_InputDialogApply ==
    /\ Handles("GoToPathDialog", "InputDialogApply")
    /\ view_state' = ViewState_Default
    /\ Sends(<<[type |-> "GoToPath",
                key |-> [bucket_name |-> object_key.bucket_name,
                         prefix |-> Trim(view_state.input)]]>>,
             "GoToPathDialog/InputDialogApply")
    /\ UNCHANGED <<object_items, projection>>

\* default arm: the raw key goes to the dialog's input buffer
GoToPathDialog_Key ==
    /\ Handles("GoToPathDialog", "NoMatch")
    /\ \E key_event \in KeyEvents :
          /\ KeyAllowed(view_state.input, key_event)
          /\ view_state' = ViewState_GoToPathDialog(
                 InputDialogState_handle_key_event(view_state.input, key_event))
    /\ Sends(<<>>, "GoToPathDialog/key")
    /\ UNCHANGED <<object_items, projection>>

\* ------------------------------------------------------------------------
\* handle_key in ViewState::FilterDialog
\* ------------------------------------------------------------------------
FilterDialog_InputDialogApply ==
    /\ Handles("FilterDialog", "InputDialogApply")
    /\ apply_filter
    /\ Sends(<<>>, "FilterDialog/InputDialogApply")
    /\ UNCHANGED object_items

FilterDialog_InputDialogClose ==
    /\ Handles("FilterDialog", "InputDialogClose")
    /\ close_filter_dialog
    /\ Sends(<<>>, "FilterDialog/InputDialogClose")
    /\ UNCHANGED object_items

\* the default arm without the filter_view_indices call
FilterDialog_Key_NoRefilter ==
    /\ Handles("FilterDialog", "NoMatch")
    /\ \E key_event \in KeyEvents :
          /\ KeyAllowed(filter_input_state, key_event)
          /\ filter_input_state' =
                 InputDialogState_handle_key_event(filter_input_state, key_event)
    /\ Sends(<<>>, "FilterDialog/key")
    /\ UNCHANGED <<object_items, view_state, view_indices, list_state,
                   sort_dialog_state>>

\* default arm: the raw key edits the filter buffer and the list is
\* filtered again
FilterDialog_Key ==
    /\ Handles("FilterDialog", "NoMatch")
    /\ \E key_event \in KeyEvents :
          /\ KeyAllowed(filter_input_state, key_event)
          /\ filter_input_state' =
                 InputDialogState_handle_key_event(filter_input_state, key_event)
          /\ SetFiltered(filter_input_state')
    /\ Sends(<<>>, "FilterDialog/key")
    /\ UNCHANGED <<object_items, view_state, sort_dialog_state>>

\* ------------------------------------------------------------------------
\* handle_key in ViewState::SortDialog
\* ------------------------------------------------------------------------
SortDialog_SelectDialogClose ==
    /\ Handles("SortDialog", "SelectDialogClose")
    /\ close_sort_dialog
    /\ Sends(<<>>, "SortDialog/SelectDialogClose")
    /\ UNCHANGED object_items

SortDialog_SelectDialogDown ==
    /\ Handles("SortDialog", "SelectDialogDown")
    /\ select_next_sort_item
    /\ Sends(<<>>, "SortDialog/SelectDialogDown")
    /\ UNCHANGED object_items

SortDialog_SelectDialogUp ==
    /\ Handles("SortDialog", "SelectDialogUp")
    /\ select_prev_sort_item
    /\ Sends(<<>>, "SortDialog/SelectDialogUp")
    /\ UNCHANGED object_items

\* apply_sort sorting the master list itself instead of the projection
SortDialog_SelectDialogSelect_SortsMasterList ==
    /\ Handles("SortDialog", "SelectDialogSelect")
    /\ view_state' = ViewState_Default
    /\ object_items' =
          LET order == sort_view_indices(object_items,
                                         [i \in 1..Len(object_items) |-> i],
                                         sort_dialog_state)
          IN  [k \in 1..Len(object_items) |-> object_items[order[k]]]
    /\ Sends(<<>>, "SortDialog/SelectDialogSelect")
    /\ UNCHANGED projection

SortDialog_SelectDialogSelect ==
    /\ Handles("SortDialog", "SelectDialogSelect")
    /\ apply_sort
    /\ Sends(<<>>, "SortDialog/SelectDialogSelect")
    /\ UNCHANGED object_items

\* ------------------------------------------------------------------------
\* handle_key in ViewState::PasteConfirmDialog
\* ------------------------------------------------------------------------
\* close_paste_confirm_dialog
PasteConfirmDialog_SelectDialogClose ==
    /\ Handles("PasteConfirmDialog", "SelectDialogClose")
    /\ view_state' = ViewState_Default
    /\ Sends(<<>>, "PasteConfirmDialog/SelectDialogClose")
    /\ UNCHANGED <<object_items, projection>>

\* ConfirmDialogState::toggle on SelectDialogLeft | SelectDialogRight
PasteConfirmDialog_Toggle ==
    /\ \/ Handles("PasteConfirmDialog", "SelectDialogLeft")
       \/ Handles("PasteConfirmDialog", "SelectDialogRight")
    /\ view_state' = [view_state EXCEPT !.is_ok = ~view_state.is_ok]
    /\ Sends(<<>>, "PasteConfirmDialog/toggle")
    /\ UNCHANGED <<object_items, projection>>

\* paste without the is_ok test
PasteConfirmDialog_SelectDialogSelect_IgnoresToggle ==
    /\ Handles("PasteConfirmDialog", "SelectDialogSelect")
    /\ view_state' = ViewState_Default
    /\ Sends(<<[type |-> "PasteObject", spec |-> view_state.spec]>>,
             "PasteConfirmDialog/SelectDialogSelect")
    /\ UNCHANGED <<object_items, projection>>

\* paste
PasteConfirmDialog_SelectDialogSelect ==
    /\ Handles("PasteConfirmDialog", "SelectDialogSelect")
    /\ view_state' = ViewState_Default
    /\ Sends(IF view_state.is_ok
             THEN <<[type |-> "PasteObject", spec |-> view_state.spec]>>
             ELSE <<>>,
             "PasteConfirmDialog/SelectDialogSelect")
    /\ UNCHANGED <<object_items, projection>>

\* ------------------------------------------------------------------------
\* handle_key in ViewState::CopyDetailDialog
\* ------------------------------------------------------------------------
\* close_copy_detail_dialog
CopyDetailDialog_SelectDialogClose ==
    /\ Handles("CopyDetailDialog", "SelectDialogClose")
    /\ view_state' = ViewState_Default
    /\ Sends(<<>>, "CopyDetailDialog/SelectDialogClose")
    /\ UNCHANGED <<object_items, projection>>

CopyDetailDialog_SelectDialogDown ==
    /\ Handles("CopyDetailDialog", "SelectDialogDown")
    /\ \E sel \in CopyDetail_select_next(view_state) :
          view_state' = [view_state EXCEPT !.selected = sel]
    /\ Sends(<<>>, "CopyDetailDialog/SelectDialogDown")
    /\ UNCHANGED <<object_items, projection>>

CopyDetailDialog_SelectDialogUp ==
    /\ Handles("CopyDetailDialog", "SelectDialogUp")
    /\ \E sel \in CopyDetail_select_prev(view_state) :
          view_state' = [view_state EXCEPT !.selected = sel]
    /\ Sends(<<>>, "CopyDetailDialog/SelectDialogUp")
    /\ UNCHANGED <<object_items, projection>>

CopyDetailDialog_SelectDialogSelect ==
    /\ Handles("CopyDetailDialog", "SelectDialogSelect")
    /\ Sends(<<[type |-> "CopyToClipboard",
                name |-> CopyDetailFields(view_state.item)[view_state.selected],
                item |-> view_state.item]>>,
             "CopyDetailDialog/SelectDialogSelect")
    /\ UNCHANGED <<object_items, view_state, projection>>

\* ------------------------------------------------------------------------
\* handle_key in ViewState::DownloadConfirmDialog
\* ------------------------------------------------------------------------
\* the close arm calling download instead of close_download_confirm_dialog
DownloadConfirmDialog_SelectDialogClose_Downloads ==
    /\ Handles("DownloadConfirmDialog", "SelectDialogClose")
    /\ view_state' = ViewState_Default
    /\ Sends(<<[type |-> "DownloadObjects",
                bucket |-> object_key.bucket_name,
                objs |-> view_state.objs]>>,
             "DownloadConfirmDialog/SelectDialogClose")
    /\ UNCHANGED <<object_items, projection>>

\* close_download_confirm_dialog
DownloadConfirmDialog_SelectDialogClose ==
    /\ Handles("DownloadConfirmDialog", "SelectDialogClose")
    /\ view_state' = ViewState_Default
    /\ Sends(<<>>, "DownloadConfirmDialog/SelectDialogClose")
    /\ UNCHANGED <<object_items, projection>>

DownloadConfirmDialog_Toggle ==
    /\ \/ Handles("DownloadConfirmDialog", "SelectDialogLeft")
       \/ Handles("DownloadConfirmDialog", "SelectDialogRight")
    /\ view_state' = [view_state EXCEPT !.is_ok = ~view_state.is_ok]
    /\ Sends(<<>>, "DownloadConfirmDialog/toggle")
    /\ UNCHANGED <<object_items, projection>>

\* download without the is_ok test: a Select in the cancel position downloads
DownloadConfirmDialog_SelectDialogSelect_IgnoresToggle ==
    /\ Handles("DownloadConfirmDialog", "SelectDialogSelect")
    /\ IF ~SelectedInRange
       THEN Panics("DownloadConfirmDialog/SelectDialogSelect")
       ELSE /\ view_state' = ViewState_Default
            /\ Sends(<<[type |-> "DownloadObjects",
                        bucket |-> object_key.bucket_name,
                        key |-> current_selected_object_key,
                        dir |-> ItemName(current_selected_item),
                        objs |-> view_state.objs]>>,
                     "DownloadConfirmDialog/SelectDialogSelect")
            /\ UNCHANGED <<object_items, projection>>

\* download
DownloadConfirmDialog_SelectDialogSelect ==
    /\ Handles("DownloadConfirmDialog", "SelectDialogSelect")
    /\ IF ~view_state.is_ok
       THEN /\ view_state' = ViewState_Default
            /\ Sends(<<>>, "DownloadConfirmDialog/SelectDialogSelect")
            /\ UNCHANGED <<object_items, projection>>
       ELSE IF ~SelectedInRange
       THEN Panics("DownloadConfirmDialog/SelectDialogSelect")
       ELSE IF view_state.download_as
       THEN /\ view_state' = ViewState_SaveDialog(
                   InputDialogState_new(ItemName(current_selected_item)),
                   <<view_state.objs>>)
            /\ Sends(<<>>, "DownloadConfirmDialog/SelectDialogSelect")
            /\ UNCHANGED <<object_items, projection>>
       ELSE /\ view_state' = ViewState_Default
            /\ Sends(<<[type |-> "DownloadObjects",
                        bucket |-> object_key.bucket_name,
                        key |-> current_selected_object_key,
                        dir |-> ItemName(current_selected_item),
                        objs |-> view_state.objs]>>,
                     "DownloadConfirmDialog/SelectDialogSelect")
            /\ UNCHANGED <<object_items, projection>>

\* ------------------------------------------------------------------------
\* handle_key in ViewState::SaveDialog
\* ------------------------------------------------------------------------
\* close_save_dialog
SaveDialog_InputDialogClose ==
    /\ Handles("SaveDialog", "InputDialogClose")
    /\ view_state' = ViewState_Default
    /\ Sends(<<>>, "SaveDialog/InputDialogClose")
    /\ UNCHANGED <<object_items, projection>>

\* download_as sending the input as typed, not trimmed
SaveDialog_InputDialogApply_UntrimmedName ==
    /\ Handles("SaveDialog", "InputDialogApply")
    /\ LET input == Trim(view_state.input)
       IN  IF input = <<>>
           THEN /\ Sends(<<>>, "SaveDialog/InputDialogApply")
                /\ UNCHANGED <<object_items, view_state, projection>>
           ELSE IF ~SelectedInRange
           THEN Panics("SaveDialog/InputDialogApply")
           ELSE IF view_state.objs # <<>>
           THEN /\ view_state' = ViewState_Default
                /\ Sends(<<[type |-> "DownloadObjects",
                            bucket |-> object_key.bucket_name,
                            key |-> current_selected_object_key,
                            dir |-> view_state.input,
                            objs |-> view_state.objs[1]]>>,
                         "SaveDialog/InputDialogApply")
                /\ UNCHANGED <<object_items, projection>>
           ELSE IF ItemSizeByte(current_selected_item) = <<>>
           THEN Panics("SaveDialog/InputDialogApply")
           ELSE /\ view_state' = ViewState_Default
                /\ Sends(<<[type |-> "StartDownloadObjectAs",
                            key |-> current_selected_object_key,
                            size_byte |-> ItemSizeByte(current_selected_item)[1],
                            name |-> view_state.input]>>,
                         "SaveDialog/InputDialogApply")
                /\ UNCHANGED <<object_items, projection>>

\* download_as taking the object set before the empty-input test
SaveDialog_InputDialogApply_TakesObjsFirst ==
    /\ Handles("SaveDialog", "InputDialogApply")
    /\ LET input == Trim(view_state.input)
       IN  IF input = <<>>
           THEN /\ Sends(<<>>, "SaveDialog/InputDialogApply")
                /\ view_state' = [view_state EXCEPT !.objs = <<>>]
                /\ UNCHANGED <<object_items, projection>>
           ELSE IF ~SelectedInRange
           THEN Panics("SaveDialog/InputDialogApply")
           ELSE IF view_state.objs # <<>>
           THEN /\ view_state' = ViewState_Default
                /\ Sends(<<[type |-> "DownloadObjects",
                            bucket |-> object_key.bucket_name,
                            key |-> current_selected_object_key,
                            dir |-> input,
                            objs |-> view_state.objs[1]]>>,
                         "SaveDialog/InputDialogApply")
                /\ UNCHANGED <<object_items, projection>>
           ELSE IF ItemSizeByte(current_selected_item) = <<>>
           THEN Panics("SaveDialog/InputDialogApply")
           ELSE /\ view_state' = ViewState_Default
                /\ Sends(<<[type |-> "StartDownloadObjectAs",
                            key |-> current_selected_object_key,
                            size_byte |-> ItemSizeByte(current_selected_item)[1],
                            name |-> input]>>,
                         "SaveDialog/InputDialogApply")
                /\ UNCHANGED <<object_items, projection>>

\* download_as
SaveDialog_InputDialogApply ==
    /\ Handles("SaveDialog", "InputDialogApply")
    /\ LET input == Trim(view_state.input)
       IN  IF input = <<>>
           THEN /\ Sends(<<>>, "SaveDialog/InputDialogApply")
                /\ UNCHANGED <<object_items, view_state, projection>>
           ELSE IF ~SelectedInRange
           THEN Panics("SaveDialog/InputDialogApply")
           ELSE IF view_state.objs # <<>>
           THEN /\ view_state' = ViewState_Default
                /\ Sends(<<[type |-> "DownloadObjects",
                            bucket |-> object_key.bucket_name,
                            key |-> current_selected_object_key,
                            dir |-> input,
                            objs |-> view_state.objs[1]]>>,
                         "SaveDialog/InputDialogApply")
                /\ UNCHANGED <<object_items, projection>>
           ELSE IF ItemSizeByte(current_selected_item) = <<>>
           THEN Panics("SaveDialog/InputDialogApply")
           ELSE /\ view_state' = ViewState_Default
                /\ Sends(<<[type |-> "StartDownloadObjectAs",
                            key |-> current_selected_object_key,
                            size_byte |-> ItemSizeByte(current_selected_item)[1],
                            name |-> input]>>,
                         "SaveDialog/InputDialogApply")
                /\ UNCHANGED <<object_items, projection>>

SaveDialog_Key ==
    /\ Handles("SaveDialog", "NoMatch")
    /\ \E key_event \in KeyEvents :
          /\ KeyAllowed(view_state.input, key_event)
          /\ view_state' = [view_state EXCEPT !.input =
                 InputDialogState_handle_key_event(view_state.input, key_event)]
    /\ Sends(<<>>, "SaveDialog/key")
    /\ UNCHANGED <<object_items, projection>>

\* ------------------------------------------------------------------------
\* Calls from the application: dialog-opening callbacks and the render pass
\* ------------------------------------------------------------------------
\* ConfirmDialogState::default : the position the toggle starts in
ConfirmDialogState_default == BOOLEAN

open_download_confirm_dialog ==
    /\ ~panicked
    /\ \E objs \in DownloadObjectLists, download_as \in BOOLEAN,
          is_ok \in ConfirmDialogState_default :
          view_state' = ViewState_DownloadConfirmDialog(objs, is_ok, download_as)
    /\ Sends(<<>>, "open_download_confirm_dialog")
    /\ UNCHANGED <<object_items, projection>>

open_paste_confirm_dialog ==
    /\ ~panicked
    /\ \E spec \in PasteSpecs, is_ok \in ConfirmDialogState_default :
          view_state' = ViewState_PasteConfirmDialog(spec, is_ok)
    /\ Sends(<<>>, "open_paste_confirm_dialog")
    /\ UNCHANGED <<object_items, projection>>

\* the viewport heights a render pass may find: shorter than the longest
\* list, and at least as long as a short one
Heights == {1, 2}

\* render : the list widget is drawn into an area of height + 2 rows
render ==
    /\ ~panicked
    /\ \E height \in Heights :
          list_state' = ScrollListState_render(list_state, height)
    /\ list_state' # list_state
    /\ UNCHANGED <<object_items, view_indices, view_state, filter_input_state,
                   sort_dialog_state, sent, last, before, panicked>>
    /\ UNCHANGED other_vars

Next ==
    \/ Default_ObjectListSelect
    \/ Default_ObjectListBack
    \/ Default_ObjectListDown
    \/ Default_ObjectListUp
    \/ Default_ObjectListGoToTop
    \/ Default_ObjectListGoToBottom
    \/ Default_ObjectListPageDown
    \/ Default_ObjectListPageUp
    \/ Default_ObjectListRefresh
    \/ Default_ObjectListBucketList
    \/ Default_ObjectListManagementConsole
    \/ Default_ObjectListFilter
    \/ Default_ObjectListSort
    \/ Default_ObjectListGoToPath
    \/ Default_ObjectListCopyObject
    \/ Default_ObjectListPasteObject
    \/ Default_ObjectListCopyDetails
    \/ Default_ObjectListDownloadObject
    \/ Default_ObjectListDownloadObjectAs
    \/ Default_ObjectListResetFilter
    \/ AnyState_Help
    \/ KeyIgnored
    \/ GoToPathDialog_InputDialogClose
    \/ GoToPathDialog_InputDialogApply
    \/ GoToPathDialog_Key
    \/ FilterDialog_InputDialogApply
    \/ FilterDialog_InputDialogClose
    \/ FilterDialog_Key
    \/ SortDialog_SelectDialogClose
    \/ SortDialog_SelectDialogDown
    \/ SortDialog_SelectDialogUp
    \/ SortDialog_SelectDialogSelect
    \/ PasteConfirmDialog_SelectDialogClose
    \/ PasteConfirmDialog_Toggle
    \/ PasteConfirmDialog_SelectDialogSelect
    \/ CopyDetailDialog_SelectDialogClose
    \/ CopyDetailDialog_SelectDialogDown
    \/ CopyDetailDialog_SelectDialogUp
    \/ CopyDetailDialog_SelectDialogSelect
    \/ DownloadConfirmDialog_SelectDialogClose
    \/ DownloadConfirmDialog_Toggle
    \/ DownloadConfirmDialog_SelectDialogSelect
    \/ SaveDialog_InputDialogClose
    \/ SaveDialog_InputDialogApply
    \/ SaveDialog_Key
    \/ open_download_confirm_dialog
    \/ open_paste_confirm_dialog
    \/ render

Spec == Init /\ [][Next]_vars

\* the page together with the enumeration requests of the application
TrackedInit ==
    /\ object_items \in MasterLists
    /\ view_indices = [i \in 1..Len(object_items) |-> i]
    /\ view_state = ViewState_Default
    /\ list_state = ScrollListState_new(Len(object_items))
    /\ filter_input_state = <<>>
    /\ sort_dialog_state = SortDialogState_default
    /\ sent = <<>>
    /\ last = "new"
    /\ before = ViewState_Default
    /\ panicked = FALSE
    /\ WrapIdle
    /\ enumeration = EnumerationTracked
    /\ StartupIdle

TrackedSpec == TrackedInit /\ [][Next]_vars

\* ------------------------------------------------------------------------
\* Dialog text wrapping (wrap_s3_path_for_dialog and its helpers)
\* ------------------------------------------------------------------------
\* the glyphs of the model: "W" is a wide glyph (two columns, like a CJK
\* ideograph), "z" a glyph without width (a combining mark or a control
\* character, for which width() is None), every other glyph takes one column
Glyphs == {"a", "/", "W", "z"}

\* UnicodeWidthChar::width(ch).unwrap_or(0)
CharWidth(ch) == IF ch = "W" THEN 2 ELSE IF ch = "z" THEN 0 ELSE 1

\* UnicodeWidthStr::width(s)
RECURSIVE StrWidth(_)
StrWidth(s) == IF s = <<>> THEN 0 ELSE CharWidth(Head(s)) + StrWidth(Tail(s))

\* let prefix = "s3://"
S3Prefix == <<"s", "3", ":", "/", "/">>

\* str::starts_with
StartsWith(s, prefix) ==
    /\ Len(s) >= Len(prefix)
    /\ SubSeq(s, 1, Len(prefix)) = prefix

\* the loop of wrap_strict_by_char_width without the reset of count
RECURSIVE StrictLoop_KeepsCount(_, _, _, _, _)
StrictLoop_KeepsCount(s, max_width, lines, cur, count) ==
    IF s = <<>>
    THEN IF cur # <<>> THEN Append(lines, cur) ELSE lines
    ELSE LET ch == Head(s)
             char_width == CharWidth(ch)
             over == count + char_width > max_width
             flush == over /\ cur # <<>>
         IN  StrictLoop_KeepsCount(Tail(s), max_width,
                        IF flush THEN Append(lines, cur) ELSE lines,
                        Append(IF flush THEN <<>> ELSE cur, ch),
                        count + char_width)

\* the loop of wrap_strict_by_char_width that breaks one glyph early
RECURSIVE StrictLoop_BreaksAtLimit(_, _, _, _, _)
StrictLoop_BreaksAtLimit(s, max_width, lines, cur, count) ==
    IF s = <<>>
    THEN IF cur # <<>> THEN Append(lines, cur) ELSE lines
    ELSE LET ch == Head(s)
             char_width == CharWidth(ch)
             over == count + char_width >= max_width
             flush == over /\ cur # <<>>
         IN  StrictLoop_BreaksAtLimit(Tail(s), max_width,
                        IF flush THEN Append(lines, cur) ELSE lines,
                        Append(IF flush THEN <<>> ELSE cur, ch),
                        (IF over THEN 0 ELSE count) + char_width)

\* the loop of wrap_strict_by_char_width over s.chars()
RECURSIVE StrictLoop(_, _, _, _, _)
StrictLoop(s, max_width, lines, cur, count) ==
    IF s = <<>>
    THEN IF cur # <<>> THEN Append(lines, cur) ELSE lines
    ELSE LET ch == Head(s)
             char_width == CharWidth(ch)
             over == count + char_width > max_width
             flush == over /\ cur # <<>>
         IN  StrictLoop(Tail(s), max_width,
                        IF flush THEN Append(lines, cur) ELSE lines,
                        Append(IF flush THEN <<>> ELSE cur, ch),
                        (IF over THEN 0 ELSE count) + char_width)

wrap_strict_by_char_width(s, max_width) == StrictLoop(s, max_width, <<>>, <<>>, 0)

\* the peeking loop of split_by_display_width
RECURSIVE SplitLoop(_, _, _, _)
SplitLoop(s, max_width, cur_w, prefix) ==
    IF s = <<>> \/ cur_w + CharWidth(Head(s)) > max_width
    THEN <<prefix, s>>
    ELSE SplitLoop(Tail(s), max_width, cur_w + CharWidth(Head(s)),
                   Append(prefix, Head(s)))

\* split_by_display_width : the pair (prefix, suffix)
split_by_display_width(s, max_width) ==
    IF max_width = 0 THEN <<<<>>, s>> ELSE SplitLoop(s, max_width, 0, <<>>)

\* str::split('/') : the segments between the delimiters, empty ones included
RECURSIVE SplitSlash(_, _)
SplitSlash(s, segment) ==
    IF s = <<>> THEN <<segment>>
    ELSE IF Head(s) = "/" THEN <<segment>> \o SplitSlash(Tail(s), <<>>)
    ELSE SplitSlash(Tail(s), Append(segment, Head(s)))

\* append_wrapped_chunks without lines.extend(chunks)
append_wrapped_chunks_DropsChunks(lines, current, text_to_wrap, max_width) ==
    LET chunks == wrap_strict_by_char_width(text_to_wrap, max_width)
    IN  IF chunks = <<>> THEN [lines |-> lines, current |-> current]
        ELSE [lines |-> lines, current |-> chunks[Len(chunks)]]

\* append_wrapped_chunks : all chunks but the last go to lines, the last one
\* becomes current
append_wrapped_chunks(lines, current, text_to_wrap, max_width) ==
    LET chunks == wrap_strict_by_char_width(text_to_wrap, max_width)
    IN  IF chunks = <<>> THEN [lines |-> lines, current |-> current]
        ELSE [lines   |-> lines \o SubSeq(chunks, 1, Len(chunks) - 1),
              current |-> chunks[Len(chunks)]]

\* the body of the loop of wrap_path_with_prefix for segment number i, with
\* the first segment flushed like every other one
PathStep_FlushesPrefix(acc, i, segment, prefix, max_width) ==
    LET to_append == IF i = 0 THEN segment ELSE <<"/">> \o segment
        flushed == IF acc.current # <<>> THEN Append(acc.lines, acc.current)
                   ELSE acc.lines
    IN  IF segment = <<>> THEN acc
        ELSE IF StrWidth(acc.current) + StrWidth(to_append) <= max_width
        THEN [lines |-> acc.lines, current |-> acc.current \o to_append]
        ELSE append_wrapped_chunks(flushed, <<>>, to_append, max_width)

\* the body of the loop of wrap_path_with_prefix for segment number i
PathStep(acc, i, segment, prefix, max_width) ==
    LET to_append == IF i = 0 THEN segment ELSE <<"/">> \o segment
        remain == Max(max_width - StrWidth(acc.current), 0)
        split == split_by_display_width(segment, remain)
        head == split[1]
        tail == split[2]
        flushed == IF acc.current # <<>> THEN Append(acc.lines, acc.current)
                   ELSE acc.lines
    IN  IF segment = <<>> THEN acc
        ELSE IF StrWidth(acc.current) + StrWidth(to_append) <= max_width
        THEN [lines |-> acc.lines, current |-> acc.current \o to_append]
        ELSE IF i = 0 /\ acc.current = prefix
        THEN IF remain = 0
             THEN append_wrapped_chunks(Append(acc.lines, acc.current), <<>>,
                                        segment, max_width)
             ELSE IF tail # <<>>
             THEN append_wrapped_chunks(Append(acc.lines, acc.current \o head),
                                        <<>>, tail, max_width)
             ELSE [lines |-> Append(acc.lines, acc.current \o head),
                   current |-> <<>>]
        ELSE append_wrapped_chunks(flushed, <<>>, to_append, max_width)

\* for (i, segment) in rest.split('/').enumerate()
RECURSIVE PathLoop(_, _, _, _, _)
PathLoop(acc, i, segments, prefix, max_width) ==
    IF segments = <<>> THEN acc
    ELSE PathLoop(PathStep(acc, i, Head(segments), prefix, max_width),
                  i + 1, Tail(segments), prefix, max_width)

\* wrap_path_with_prefix ; s starts with prefix
wrap_path_with_prefix(s, prefix, max_width) ==
    LET rest == SubSeq(s, Len(prefix) + 1, Len(s))
        acc == PathLoop([lines |-> <<>>, current |-> prefix], 0,
                        SplitSlash(rest, <<>>), prefix, max_width)
    IN  IF acc.current # <<>> THEN Append(acc.lines, acc.current) ELSE acc.lines

\* wrap_s3_path_for_dialog without the early return for a string that fits
wrap_s3_path_for_dialog_AlwaysWraps(s, max_width) ==
    IF StartsWith(s, S3Prefix) THEN wrap_path_with_prefix(s, S3Prefix, max_width)
    ELSE wrap_strict_by_char_width(s, max_width)

wrap_s3_path_for_dialog(s, max_width) ==
    IF StrWidth(s) <= max_width THEN <<s>>
    ELSE IF StartsWith(s, S3Prefix)
    THEN wrap_path_with_prefix(s, S3Prefix, max_width)
    ELSE wrap_strict_by_char_width(s, max_width)

\* the strings over Glyphs of at most n glyphs
RECURSIVE GlyphStrings(_)
GlyphStrings(n) ==
    IF n = 0 THEN {<<>>}
    ELSE LET shorter == GlyphStrings(n - 1)
         IN  shorter \cup {Append(s, ch) : s \in shorter, ch \in Glyphs}

\* the arguments the helpers are called with: plain strings and s3:// paths
WrapInputs ==
    GlyphStrings(MaxRest) \cup {S3Prefix \o rest : rest \in GlyphStrings(MaxRest)}

WrapInit ==
    /\ object_items = <<>>
    /\ view_indices = <<>>
    /\ view_state = ViewState_Default
    /\ list_state = ScrollListState_new(0)
    /\ filter_input_state = <<>>
    /\ sort_dialog_state = SortDialogState_default
    /\ sent = <<>>
    /\ last = "new"
    /\ before = ViewState_Default
    /\ panicked = FALSE
    /\ wrap_s \in WrapInputs
    /\ wrap_max_width \in 1..MaxWidth
    /\ wrap_called = "none"
    /\ wrap_lines = <<>>
    /\ enumeration = EnumerationUntracked
    /\ StartupIdle

Returns(fn, lines) ==
    /\ wrap_called = "none"
    /\ wrap_called' = fn
    /\ wrap_lines' = lines
    /\ UNCHANGED <<wrap_s, wrap_max_width, page_vars, enumeration, startup_vars>>

Call_wrap_s3_path_for_dialog ==
    Returns("wrap_s3_path_for_dialog",
            wrap_s3_path_for_dialog(wrap_s, wrap_max_width))

Call_wrap_path_with_prefix ==
    /\ StartsWith(wrap_s, S3Prefix)
    /\ Returns("wrap_path_with_prefix",
               wrap_path_with_prefix(wrap_s, S3Prefix, wrap_max_width))

Call_wrap_strict_by_char_width ==
    Returns("wrap_strict_by_char_width",
            wrap_strict_by_char_width(wrap_s, wrap_max_width))

WrapNext ==
    \/ Call_wrap_s3_path_for_dialog
    \/ Call_wrap_path_with_prefix
    \/ Call_wrap_strict_by_char_width

WrapSpec == WrapInit /\ [][WrapNext]_vars

\* ------------------------------------------------------------------------
\* Program start: get_profile (profile_input.rs) and main (main.rs)
\* ------------------------------------------------------------------------
PROFILE_EMPTY_ERR == "Profile cannot be empty"

\* Result values: Ok(value) and Err(error)
Ok(value) == [ok |-> TRUE, value |-> value, error |-> ""]

Err(error) == [ok |-> FALSE, value |-> <<>>, error |-> error]

\* the user event lists mapper.find_events gives for the keys of the prompt,
\* among them keys bound to a cancel event and to the submit event at once
ProfileUserEventLists ==
    { <<>>, <<"Help">>, <<"InputDialogApply">>, <<"InputDialogClose">>, <<"Quit">>,
      <<"ObjectListSelect", "InputDialogApply", "SelectDialogSelect">>,
      <<"InputDialogClose", "SelectDialogClose">>,
      <<"InputDialogApply", "InputDialogClose">>,
      <<"InputDialogApply", "Quit">> }

\* user_events.iter().any(|e| matches!(e, InputDialogClose | Quit))
AnyCancel(user_events) ==
    \E k \in 1..Len(user_events) : user_events[k] \in {"InputDialogClose", "Quit"}

\* user_events.iter().any(|e| matches!(e, InputDialogApply))
AnyApply(user_events) ==
    \E k \in 1..Len(user_events) : user_events[k] = "InputDialogApply"

KeyRead(user_events) == [kind |-> "Key", user_events |-> user_events]

\* get_profile is inside its loop
InProfileLoop == main_pc = "get_profile/loop"

\* get_profile returns result to main
ProfileReturns(result) ==
    /\ profile_result' = <<result>>
    /\ main_pc' = "profile_returned"

\* let mapper = UserEventMapper::load()?
get_profile_load ==
    /\ main_pc = "get_profile/load"
    /\ \/ /\ main_pc' = "get_profile/loop"
          /\ UNCHANGED profile_result
       \/ ProfileReturns(Err("load"))
    /\ UNCHANGED <<main_terminal, main_ret, main_result, profile_state,
                   profile_error_msg, profile_event>>
    /\ UNCHANGED <<page_vars, wrap_vars, enumeration>>

\* terminal.draw(..)? or event::read()? fails
get_profile_io_error ==
    /\ InProfileLoop
    /\ profile_event' = [kind |-> "Error", user_events |-> <<>>]
    /\ ProfileReturns(Err("io"))
    /\ UNCHANGED <<main_terminal, main_ret, main_result, profile_state,
                   profile_error_msg>>
    /\ UNCHANGED <<page_vars, wrap_vars, enumeration>>

\* a key with a cancel event
get_profile_cancel ==
    /\ InProfileLoop
    /\ \E user_events \in ProfileUserEventLists :
          /\ AnyCancel(user_events)
          /\ profile_event' = KeyRead(user_events)
    /\ ProfileReturns(Err("canceled"))
    /\ UNCHANGED <<main_terminal, main_ret, main_result, profile_state,
                   profile_error_msg>>
    /\ UNCHANGED <<page_vars, wrap_vars, enumeration>>

\* the submit branch tested before the cancel branch
get_profile_apply_BeforeCancel ==
    /\ InProfileLoop
    /\ \E user_events \in ProfileUserEventLists :
          /\ AnyApply(user_events)
          /\ profile_event' = KeyRead(user_events)
    /\ LET input == Trim(profile_state)
       IN  IF input = <<>>
           THEN /\ profile_error_msg' = <<PROFILE_EMPTY_ERR>>
                /\ UNCHANGED <<main_pc, profile_result>>
           ELSE /\ ProfileReturns(Ok(input))
                /\ UNCHANGED profile_error_msg
    /\ UNCHANGED <<main_terminal, main_ret, main_result, profile_state>>
    /\ UNCHANGED <<page_vars, wrap_vars, enumeration>>

\* the submit branch without the test for an empty input
get_profile_apply_NoValidation ==
    /\ InProfileLoop
    /\ \E user_events \in ProfileUserEventLists :
          /\ ~AnyCancel(user_events)
          /\ AnyApply(user_events)
          /\ profile_event' = KeyRead(user_events)
    /\ ProfileReturns(Ok(Trim(profile_state)))
    /\ UNCHANGED <<main_terminal, main_ret, main_result, profile_state,
                   profile_error_msg>>
    /\ UNCHANGED <<page_vars, wrap_vars, enumeration>>

\* a key with the submit event and no cancel event
get_profile_apply ==
    /\ InProfileLoop
    /\ \E user_events \in ProfileUserEventLists :
          /\ ~AnyCancel(user_events)
          /\ AnyApply(user_events)
          /\ profile_event' = KeyRead(user_events)
    /\ LET input == Trim(profile_state)
       IN  IF input = <<>>
           THEN /\ profile_error_msg' = <<PROFILE_EMPTY_ERR>>
                /\ UNCHANGED <<main_pc, profile_result>>
           ELSE /\ ProfileReturns(Ok(input))
                /\ UNCHANGED profile_error_msg
    /\ UNCHANGED <<main_terminal, main_ret, main_result, profile_state>>
    /\ UNCHANGED <<page_vars, wrap_vars, enumeration>>

\* any other key: the error is cleared and the key goes to the input widget
get_profile_key ==
    /\ InProfileLoop
    /\ \E user_events \in ProfileUserEventLists :
          /\ ~AnyCancel(user_events)
          /\ ~AnyApply(user_events)
          /\ profile_event' = KeyRead(user_events)
    /\ \E key_event \in KeyEvents :
          /\ KeyAllowed(profile_state, key_event)
          /\ profile_state' =
                InputDialogState_handle_key_event(profile_state, key_event)
    /\ profile_error_msg' = <<>>
    /\ UNCHANGED <<main_pc, main_terminal, main_ret, main_result, profile_result>>
    /\ UNCHANGED <<page_vars, wrap_vars, enumeration>>

\* CEvent::Resize and every other event: the loop goes on
get_profile_other_event ==
    /\ InProfileLoop
    /\ profile_event' = [kind |-> "Other", user_events |-> <<>>]
    /\ UNCHANGED <<main_pc, main_terminal, main_ret, main_result, profile_state,
                   profile_error_msg, profile_result>>
    /\ UNCHANGED <<page_vars, wrap_vars, enumeration>>

\* main returns what it holds in main_ret
MainReturns(result) ==
    /\ main_result' = <<result>>
    /\ main_pc' = "returned"

\* Args::parse, Config::load()?, UserEventMapper::load()?,
\* initialize_debug_log(&args)?
main_load ==
    /\ main_pc = "start"
    /\ \/ /\ main_pc' = "try_init"
          /\ UNCHANGED main_result
       \/ MainReturns(Err("load"))
    /\ UNCHANGED <<main_terminal, main_ret, profile_state, profile_error_msg,
                   profile_event, profile_result>>
    /\ UNCHANGED <<page_vars, wrap_vars, enumeration>>

\* let mut terminal = ratatui::try_init()?
main_try_init ==
    /\ main_pc = "try_init"
    /\ \/ /\ main_terminal' = "initialized"
          /\ main_pc' = "get_profile/load"
          /\ UNCHANGED main_result
       \/ /\ MainReturns(Err("init"))
          /\ UNCHANGED main_terminal
    /\ UNCHANGED <<main_ret, profile_state, profile_error_msg, profile_event,
                   profile_result>>
    /\ UNCHANGED <<page_vars, wrap_vars, enumeration>>

\* ratatui::try_restore()? : the terminal is restored, or the call fails and
\* its error is what main returns
try_restore(ret) ==
    \/ /\ main_terminal' = "restored"
       /\ main_ret' = <<ret>>
    \/ /\ main_terminal' = "restore_failed"
       /\ main_ret' = <<Err("restore")>>

\* the Err(e) arm of the match returning e at once
main_profile_err_NoRestore ==
    /\ main_pc = "profile_returned"
    /\ ~profile_result[1].ok
    /\ main_ret' = <<profile_result[1]>>
    /\ main_pc' = "return"
    /\ UNCHANGED <<main_terminal, main_result, profile_state, profile_error_msg,
                   profile_event, profile_result>>
    /\ UNCHANGED <<page_vars, wrap_vars, enumeration>>

\* the Err(e) arm of the match on get_profile
main_profile_err ==
    /\ main_pc = "profile_returned"
    /\ ~profile_result[1].ok
    /\ try_restore(profile_result[1])
    /\ main_pc' = "return"
    /\ UNCHANGED <<main_result, profile_state, profile_error_msg, profile_event,
                   profile_result>>
    /\ UNCHANGED <<page_vars, wrap_vars, enumeration>>

\* the Ok(p) arm, then client::new, App::new and the Initialize event
main_profile_ok ==
    /\ main_pc = "profile_returned"
    /\ profile_result[1].ok
    /\ main_pc' = "run"
    /\ UNCHANGED <<main_terminal, main_ret, main_result, profile_state,
                   profile_error_msg, profile_event, profile_result>>
    /\ UNCHANGED <<page_vars, wrap_vars, enumeration>>

\* let ret = run::run(..).await
main_run ==
    /\ main_pc = "run"
    /\ \E ret \in {Ok(<<>>), Err("run")} : main_ret' = <<ret>>
    /\ main_pc' = "try_restore"
    /\ UNCHANGED <<main_terminal, main_result, profile_state, profile_error_msg,
                   profile_event, profile_result>>
    /\ UNCHANGED <<page_vars, wrap_vars, enumeration>>

\* ratatui::try_restore()? after the run loop
main_try_restore ==
    /\ main_pc = "try_restore"
    /\ try_restore(main_ret[1])
    /\ main_pc' = "return"
    /\ UNCHANGED <<main_result, profile_state, profile_error_msg, profile_event,
                   profile_result>>
    /\ UNCHANGED <<page_vars, wrap_vars, enumeration>>

\* return Err(e) / ret / the error of `?`
main_return ==
    /\ main_pc = "return"
    /\ MainReturns(main_ret[1])
    /\ UNCHANGED <<main_terminal, main_ret, profile_state, profile_error_msg,
                   profile_event, profile_result>>
    /\ UNCHANGED <<page_vars, wrap_vars, enumeration>>

StartupInit ==
    /\ object_items = <<>>
    /\ view_indices = <<>>
    /\ view_state = ViewState_Default
    /\ list_state = ScrollListState_new(0)
    /\ filter_input_state = <<>>
    /\ sort_dialog_state = SortDialogState_default
    /\ sent = <<>>
    /\ last = "new"
    /\ before = ViewState_Default
    /\ panicked = FALSE
    /\ WrapIdle
    /\ enumeration = EnumerationUntracked
    /\ main_pc = "start"
    /\ main_terminal = "untouched"
    /\ main_ret = <<>>
    /\ main_result = <<>>
    /\ profile_state = <<>>
    /\ profile_error_msg = <<>>
    /\ profile_event = [kind |-> "None", user_events |-> <<>>]
    /\ profile_result = <<>>

StartupNext ==
    \/ main_load
    \/ main_try_init
    \/ get_profile_load
    \/ get_profile_io_error
    \/ get_profile_cancel
    \/ get_profile_apply
    \/ get_profile_key
    \/ get_profile_other_event
    \/ main_profile_err
    \/ main_profile_ok
    \/ main_run
    \/ main_try_restore
    \/ main_return

StartupSpec == StartupInit /\ [][StartupNext]_vars

\* ------------------------------------------------------------------------
\* Properties
\* ------------------------------------------------------------------------
Range(seq) == {seq[k] : k \in 1..Len(seq)}

Reverse(seq) == [k \in 1..Len(seq) |-> seq[Len(seq) + 1 - k]]

SelectedSortType == SortDialogState_selected(sort_dialog_state)

\* position of master index i in the projection v
PosIn(v, i) == CHOOSE k \in 1..Len(v) : v[k] = i

\* C1: view_indices holds only valid indices of object_items, none of them
\* twice, and exactly the indices of the items whose name contains the
\* current filter buffer; this holds in every reachable state, so also
\* after each keystroke in the Filter dialog.
C1_ProjectionIsFilter ==
    /\ \A k \in 1..Len(view_indices) : view_indices[k] \in 1..Len(object_items)
    /\ \A j, k \in 1..Len(view_indices) : j # k => view_indices[j] # view_indices[k]
    /\ Range(view_indices) =
          {i \in 1..Len(object_items) :
               Contains(ItemName(object_items[i]), filter_input_state)}

\* a keystroke in the Filter dialog has narrowed the list to a proper,
\* non-empty part of the master list
C1_Witness ==
    /\ last = "FilterDialog/key"
    /\ filter_input_state # <<>>
    /\ view_indices # <<>>
    /\ Len(view_indices) < Len(object_items)

\* None (a directory) is below every Some; Some values by their number
OptLeq(a, b) == a = <<>> \/ (b # <<>> /\ a[1] <= b[1])

\* x may stand before y under the sort type (x, y master indices)
InSortOrder(sort_type, x, y) ==
    LET ix == object_items[x]
        iy == object_items[y]
    IN  CASE sort_type = "Default"          -> x <= y
          [] sort_type = "NameAsc"          -> CmpStr(ItemName(ix), ItemName(iy)) <= 0
          [] sort_type = "NameDesc"         -> CmpStr(ItemName(ix), ItemName(iy)) >= 0
          [] sort_type = "LastModifiedAsc"  ->
                OptLeq(ItemLastModified(ix), ItemLastModified(iy))
          [] sort_type = "LastModifiedDesc" ->
                OptLeq(ItemLastModified(iy), ItemLastModified(ix))
          [] sort_type = "SizeAsc"          -> OptLeq(ItemSizeByte(ix), ItemSizeByte(iy))
          [] sort_type = "SizeDesc"         -> OptLeq(ItemSizeByte(iy), ItemSizeByte(ix))

\* C2: in every reachable state view_indices is ordered by the sort type
\* selected in the sort dialog state: ascending master index for Default,
\* non-decreasing (Asc) or non-increasing (Desc) name, last-modified or size
\* otherwise, a directory counting below every file.
C2_OrderedBySelectedSort ==
    \A j, k \in 1..Len(view_indices) :
        j < k => InSortOrder(SelectedSortType, view_indices[j], view_indices[k])

\* a keystroke in the Filter dialog re-filtered a list shown under NameDesc,
\* and the projection is not in master order
C2_Witness ==
    /\ last = "FilterDialog/key"
    /\ SelectedSortType = "NameDesc"
    /\ Len(view_indices) >= 2
    /\ \E k \in 1..(Len(view_indices) - 1) : view_indices[k] > view_indices[k + 1]

\* C3: sorting is idempotent: for every sort type, sorting the reachable
\* view_indices a second time leaves it as the first sort left it.
C3_SortIdempotent ==
    \A st \in 1..Len(SortTypes) :
        LET once == sort_view_indices(object_items, view_indices, st)
        IN  sort_view_indices(object_items, once, st) = once

\* the picker has moved, and some sort type both reorders the current
\* projection and leaves two of its items tied
C3_Witness ==
    /\ last = "SortDialog/SelectDialogDown"
    /\ \E st \in 1..Len(SortTypes) :
          /\ sort_view_indices(object_items, view_indices, st) # view_indices
          /\ \E x, y \in Range(view_indices) :
                x # y /\ Compare(SortTypes[st], object_items, x, y) = 0

\* the picker position of a sort type
SortStateOf(sort_type) == CHOOSE st \in 1..Len(SortTypes) : SortTypes[st] = sort_type

\* the projected items have pairwise distinct names
DistinctNames ==
    \A x, y \in Range(view_indices) :
        x # y => ItemName(object_items[x]) # ItemName(object_items[y])

\* C4: when the projected items have pairwise distinct names, the NameDesc
\* ordering of the projection is the exact reverse of its NameAsc ordering.
C4_NameDescReversesNameAsc ==
    DistinctNames =>
        sort_view_indices(object_items, view_indices, SortStateOf("NameDesc"))
            = Reverse(sort_view_indices(object_items, view_indices,
                                        SortStateOf("NameAsc")))

\* the picker has moved to NameDesc over at least two items of distinct names
C4_Witness ==
    /\ last = "SortDialog/SelectDialogDown"
    /\ SelectedSortType = "NameDesc"
    /\ Len(view_indices) >= 2
    /\ DistinctNames

\* the steps that change only the sort: Up/Down in the picker, apply, close
SortStep ==
    \/ SortDialog_SelectDialogDown
    \/ SortDialog_SelectDialogUp
    \/ SortDialog_SelectDialogSelect
    \/ SortDialog_SelectDialogClose

\* the steps that change the filter
FilterStep ==
    \/ FilterDialog_Key
    \/ FilterDialog_InputDialogApply
    \/ FilterDialog_InputDialogClose
    \/ /\ last' = "Default/ObjectListResetFilter"
       /\ Default_ObjectListResetFilter

\* C5 as stated: in every reachable state two projected items whose sort
\* keys compare equal stand in ascending master index order
C5_TiesInMasterOrder ==
    \A j, k \in 1..Len(view_indices) :
        (j < k /\ Compare(SelectedSortType, object_items,
                          view_indices[j], view_indices[k]) = 0)
            => view_indices[j] < view_indices[k]

\* C5 (amended): the sort is stable with respect to the order view_indices
\* had before it ran: a sort step keeps the relative order of every two
\* projected items that compare equal under the newly selected sort type,
\* and a step that re-filters leaves tied items in ascending master order.
C5_TiesKeepPreviousOrder ==
    [][ /\ SortStep =>
             \A x, y \in Range(view_indices) :
                 (/\ Compare(SortDialogState_selected(sort_dialog_state'),
                             object_items, x, y) = 0
                  /\ PosIn(view_indices, x) < PosIn(view_indices, y))
                     => PosIn(view_indices', x) < PosIn(view_indices', y)
        /\ FilterStep => C5_TiesInMasterOrder'
      ]_vars

\* the picker has moved and two tied items stand against master order
C5_Witness ==
    /\ last \in {"SortDialog/SelectDialogDown", "SortDialog/SelectDialogUp"}
    /\ ~C5_TiesInMasterOrder

\* C6: a step that changes the filter (a keystroke forwarded to the filter
\* buffer, applying the filter, closing the Filter dialog, ResetFilter in
\* Default) leaves the cursor at selected = 0 and offset = 0 with its total
\* equal to the new length of view_indices.
C6_FilterStepResetsCursor ==
    last \in {"FilterDialog/key", "FilterDialog/InputDialogApply",
              "FilterDialog/InputDialogClose", "Default/ObjectListResetFilter"}
        => /\ list_state.selected = 0
           /\ list_state.offset = 0
           /\ list_state.total = Len(view_indices)

\* a keystroke in the Filter dialog left at least two items, cursor on top
C6_Witness ==
    /\ last = "FilterDialog/key"
    /\ filter_input_state # <<>>
    /\ Len(view_indices) >= 2
    /\ list_state.selected = 0

\* C7: a step that changes only the sort (Up/Down in the sort picker, apply,
\* close) leaves the cursor's selected and offset values unchanged.
C7_SortStepKeepsCursor ==
    [][ SortStep => /\ list_state'.selected = list_state.selected
                    /\ list_state'.offset = list_state.offset
      ]_vars

\* the sort picker was closed while the cursor stood below the first row of
\* a scrolled list
C7_Witness ==
    /\ last = "SortDialog/SelectDialogClose"
    /\ list_state.selected > 0
    /\ list_state.offset > 0

\* C8: whenever view_indices is non-empty, 0 <= selected < len(view_indices),
\* offset <= selected, and the cursor's total is len(view_indices).
C8_CursorInRange ==
    view_indices # <<>> =>
        /\ 0 <= list_state.selected
        /\ list_state.selected < Len(view_indices)
        /\ list_state.offset <= list_state.selected
        /\ list_state.total = Len(view_indices)

\* a page-down moved the cursor of a filtered, re-sorted and scrolled list
C8_Witness ==
    /\ last = "Default/ObjectListPageDown"
    /\ filter_input_state # <<>>
    /\ SelectedSortType # "Default"
    /\ list_state.selected > 0
    /\ list_state.offset > 0

CloseBranches ==
    { "FilterDialog/InputDialogClose", "GoToPathDialog/InputDialogClose",
      "SaveDialog/InputDialogClose", "SortDialog/SelectDialogClose",
      "CopyDetailDialog/SelectDialogClose", "DownloadConfirmDialog/SelectDialogClose",
      "PasteConfirmDialog/SelectDialogClose" }

\* C9: handling the close event of any dialog (InputDialogClose in Filter,
\* GoToPath and Save, SelectDialogClose in Sort, CopyDetail, DownloadConfirm
\* and PasteConfirm) makes the view state Default in that step and sends no
\* event.
C9_CloseRestoresDefault ==
    last \in CloseBranches => /\ view_state = ViewState_Default
                              /\ sent = <<>>
                              /\ ~panicked

\* a download confirmation was closed
C9_Witness ==
    /\ last = "DownloadConfirmDialog/SelectDialogClose"
    /\ view_state = ViewState_Default
    /\ sent = <<>>

\* C10: closing the Filter dialog with InputDialogClose empties the filter
\* buffer and restores view_indices to every index of the master list.
C10_FilterCloseRevertsNarrowing ==
    last = "FilterDialog/InputDialogClose" =>
        /\ filter_input_state = <<>>
        /\ Len(view_indices) = Len(object_items)
        /\ Range(view_indices) = 1..Len(object_items)

\* the Filter dialog was closed over a master list of at least two items
\* that some filter the dialog can hold narrows
C10_Witness ==
    /\ last = "FilterDialog/InputDialogClose"
    /\ Len(object_items) >= 2
    /\ \E i \in 1..Len(object_items) :
          ~Contains(ItemName(object_items[i]), <<"a">>)

\* C11: applying the Filter dialog (InputDialogApply) commits the trimmed
\* content of the filter buffer as the filter: after apply the view state is
\* Default and view_indices holds exactly the items whose name contains the
\* buffer content with leading and trailing whitespace removed.
C11_ApplyFiltersByTrimmedInput ==
    last = "FilterDialog/InputDialogApply" =>
        /\ view_state = ViewState_Default
        /\ Range(view_indices) =
              { i \in 1..Len(object_items) :
                    Contains(ItemName(object_items[i]), Trim(filter_input_state)) }

\* C12: applying the GoToPath dialog (InputDialogApply) sends exactly one
\* GoToPath event whose key has the page's own bucket name and the trimmed
\* content of the dialog buffer as prefix, and sets the view state to Default,
\* for every buffer content (an empty one included).
C12_GoToPathApplySendsTrimmedPrefix ==
    last = "GoToPathDialog/InputDialogApply" =>
        /\ before.tag = "GoToPathDialog"
        /\ sent = << [type |-> "GoToPath",
                      key |-> [bucket_name |-> object_key.bucket_name,
                               prefix |-> Trim(before.input)]] >>
        /\ view_state = ViewState_Default

\* the GoToPath dialog was applied with a buffer that trim() shortens
C12_Witness ==
    /\ last = "GoToPathDialog/InputDialogApply"
    /\ before.tag = "GoToPathDialog"
    /\ Trim(before.input) # before.input
    /\ Len(sent) = 1

\* C13: leaving DownloadConfirmDialog without an ok-confirmation sends no
\* download request: SelectDialogSelect with the toggle not in the ok position,
\* or SelectDialogClose in any toggle position, sets the view state to Default
\* (the pending object set is gone with the dialog) and sends no event.
C13_NoDownloadWithoutOk ==
    ( \/ last = "DownloadConfirmDialog/SelectDialogClose"
      \/ /\ last = "DownloadConfirmDialog/SelectDialogSelect"
         /\ ~before.is_ok )
        => /\ view_state = ViewState_Default
           /\ sent = <<>>
           /\ ~panicked

\* SelectDialogSelect was handled with the toggle in the cancel position
C13_Witness ==
    /\ last = "DownloadConfirmDialog/SelectDialogSelect"
    /\ before.tag = "DownloadConfirmDialog"
    /\ ~before.is_ok
    /\ before.objs # <<>>
    /\ view_state = ViewState_Default

\* C14: SelectDialogSelect in DownloadConfirmDialog with the toggle in the ok
\* position does exactly one of two things: with the download-as flag set the
\* state becomes SaveDialog carrying the complete pending object set and no
\* event is sent; otherwise exactly one DownloadObjects event carrying the
\* complete pending object set is sent and the state becomes Default.
C14_ConfirmedDownloadOneOfTwo ==
    ( /\ last = "DownloadConfirmDialog/SelectDialogSelect"
      /\ before.is_ok )
        => IF before.download_as
           THEN /\ view_state.tag = "SaveDialog"
                /\ view_state.objs = <<before.objs>>
                /\ sent = <<>>
           ELSE /\ Len(sent) = 1
                /\ sent[1].type = "DownloadObjects"
                /\ sent[1].objs = before.objs
                /\ view_state = ViewState_Default

\* C15: applying SaveDialog with a non-empty trimmed input sends exactly one
\* request and returns to Default: with a carried object set, a
\* DownloadObjects event with that set and the trimmed input as directory
\* name; with none, a StartDownloadObjectAs event for the selected object with
\* the trimmed input as file name.
C15_SaveApplySendsOneRequest ==
    ( /\ last = "SaveDialog/InputDialogApply"
      /\ Trim(before.input) # <<>> )
        => /\ ~panicked
           /\ view_state = ViewState_Default
           /\ SelectedInRange
           /\ IF before.objs # <<>>
              THEN sent = << [type |-> "DownloadObjects",
                              bucket |-> object_key.bucket_name,
                              key |-> current_selected_object_key,
                              dir |-> Trim(before.input),
                              objs |-> before.objs[1]] >>
              ELSE /\ current_selected_item.kind = "File"
                   /\ sent = << [type |-> "StartDownloadObjectAs",
                                 key |-> current_selected_object_key,
                                 size_byte |-> current_selected_item.size_byte,
                                 name |-> Trim(before.input)] >>

\* SaveDialog carrying an object set was applied with a name that trim()
\* shortens but does not empty
C15_Witness ==
    /\ last = "SaveDialog/InputDialogApply"
    /\ before.tag = "SaveDialog"
    /\ before.objs # <<>>
    /\ Trim(before.input) # <<>>
    /\ Trim(before.input) # before.input
    /\ Len(sent) = 1

\* C16: applying SaveDialog with an empty or whitespace-only input is a local
\* validation failure: no event is sent, the view state stays SaveDialog, and
\* the carried object set and the input buffer are unchanged.
C16_SaveApplyEmptyStaysInDialog ==
    ( /\ last = "SaveDialog/InputDialogApply"
      /\ Trim(before.input) = <<>> )
        => /\ ~panicked
           /\ sent = <<>>
           /\ view_state.tag = "SaveDialog"
           /\ view_state.objs = before.objs
           /\ view_state.input = before.input

\* SaveDialog carrying an object set was applied with a whitespace-only name
C16_Witness ==
    /\ last = "SaveDialog/InputDialogApply"
    /\ before.tag = "SaveDialog"
    /\ before.input # <<>>
    /\ Trim(before.input) = <<>>
    /\ before.objs # <<>>
    /\ view_state = before

\* C17: SelectDialogSelect in PasteConfirmDialog sends exactly one PasteObject
\* event carrying the dialog's PasteSpec when the toggle is in the ok position
\* and sends nothing otherwise; in both cases the state becomes Default, so
\* the page no longer holds the PasteSpec.
C17_PasteSelectSendsIffOk ==
    last = "PasteConfirmDialog/SelectDialogSelect" =>
        /\ before.tag = "PasteConfirmDialog"
        /\ sent = IF before.is_ok
                  THEN << [type |-> "PasteObject", spec |-> before.spec] >>
                  ELSE <<>>
        /\ view_state = ViewState_Default
        /\ ~panicked

\* a paste confirmation was selected with the toggle in the cancel position
C17_Witness ==
    /\ last = "PasteConfirmDialog/SelectDialogSelect"
    /\ before.tag = "PasteConfirmDialog"
    /\ ~before.is_ok
    /\ sent = <<>>
    /\ view_state = ViewState_Default

\* C18: confirmation of a copy is mandatory: every PasteObject event the page
\* sends is sent by SelectDialogSelect in PasteConfirmDialog with the toggle
\* in the ok position and carries the spec of that dialog; a
\* PasteConfirmDialog exists only as opened by open_paste_confirm_dialog and
\* keeps the spec it was opened with; the paste key in Default sends only
\* StartPasteObject with the current directory key.
C18_PasteOnlyThroughConfirmation ==
    /\ \A k \in 1..Len(sent) :
          sent[k].type = "PasteObject" =>
              /\ last = "PasteConfirmDialog/SelectDialogSelect"
              /\ before.tag = "PasteConfirmDialog"
              /\ before.is_ok
              /\ sent[k].spec = before.spec
    /\ view_state.tag = "PasteConfirmDialog" =>
          \/ last = "open_paste_confirm_dialog"
          \/ /\ before.tag = "PasteConfirmDialog"
             /\ before.spec = view_state.spec
    /\ last = "Default/ObjectListPasteObject" =>
          /\ sent = << [type |-> "StartPasteObject", key |-> object_key] >>
          /\ view_state = ViewState_Default

\* a PasteObject event carrying the second spec was sent from a confirmation
\* with the toggle on ok
C18_Witness ==
    /\ last = "PasteConfirmDialog/SelectDialogSelect"
    /\ Len(sent) = 1
    /\ sent[1].type = "PasteObject"
    /\ sent[1].spec = "spec2"
    /\ before.is_ok

\* C19: ObjectListDownloadObject in Default with a File selected sends exactly
\* one StartDownloadObject event carrying the selected object's key, its name
\* and its byte size, opens no dialog (the state stays Default) and sends no
\* enumeration request.
C19_FileDownloadStartsDirectly ==
    last = "Default/ObjectListDownloadObject" =>
        /\ ~panicked
        /\ SelectedInRange
        /\ current_selected_item.kind = "File" =>
              /\ sent = << [type |-> "StartDownloadObject",
                            key |-> current_selected_object_key,
                            name |-> ItemName(current_selected_item),
                            size_byte |-> current_selected_item.size_byte] >>
              /\ view_state = ViewState_Default

\* the download key was handled with a File selected below the first row
C19_Witness ==
    /\ last = "Default/ObjectListDownloadObject"
    /\ SelectedInRange
    /\ list_state.selected > 0
    /\ current_selected_item.kind = "File"
    /\ Len(sent) = 1

\* the event that asks for the enumeration of the selected key
EnumerationRequest(download_as) ==
    [type |-> "StartLoadAllDownloadObjectList",
     key |-> current_selected_object_key,
     download_as |-> download_as]

\* every DownloadObjects event comes from a confirmed DownloadConfirmDialog,
\* directly or through the SaveDialog the confirmation opened, and such
\* dialogs exist only as opened by open_download_confirm_dialog
BulkDownloadOnlyAfterConfirmation ==
    /\ \A k \in 1..Len(sent) :
          sent[k].type = "DownloadObjects" =>
              \/ /\ last = "DownloadConfirmDialog/SelectDialogSelect"
                 /\ before.tag = "DownloadConfirmDialog"
                 /\ before.is_ok
                 /\ ~before.download_as
                 /\ sent[k].objs = before.objs
              \/ /\ last = "SaveDialog/InputDialogApply"
                 /\ before.tag = "SaveDialog"
                 /\ before.objs = <<sent[k].objs>>
    /\ (view_state.tag = "SaveDialog" /\ view_state.objs # <<>>) =>
          \/ /\ last = "DownloadConfirmDialog/SelectDialogSelect"
             /\ before.tag = "DownloadConfirmDialog"
             /\ before.is_ok
             /\ before.download_as
             /\ view_state.objs = <<before.objs>>
          \/ /\ before.tag = "SaveDialog"
             /\ before.objs = view_state.objs
    /\ view_state.tag = "DownloadConfirmDialog" =>
          \/ last = "open_download_confirm_dialog"
          \/ /\ before.tag = "DownloadConfirmDialog"
             /\ before.objs = view_state.objs
             /\ before.download_as = view_state.download_as

\* C20 (as claimed): a download triggered on a directory, or a 'download as'
\* triggered on any selected item, sends an enumeration request
\* (StartLoadAllDownloadObjectList with the selected key and the download-as
\* flag) and no download request; a DownloadObjects request is sent only after
\* a DownloadConfirmDialog opened by open_download_confirm_dialog was confirmed.
C20_DownloadAsAlwaysEnumerates ==
    /\ last = "Default/ObjectListDownloadObject" =>
          /\ SelectedInRange
          /\ current_selected_item.kind = "Dir" =>
                sent = <<EnumerationRequest(FALSE)>>
    /\ last = "Default/ObjectListDownloadObjectAs" =>
          /\ SelectedInRange
          /\ sent = <<EnumerationRequest(TRUE)>>
    /\ BulkDownloadOnlyAfterConfirmation

\* C20 (amended): a download or a 'download as' triggered on a directory sends
\* an enumeration request with the selected key and the download-as flag, no
\* download request, and stays in Default; a 'download as' triggered on a file
\* sends nothing and opens SaveDialog with the file name and no object set; a
\* DownloadObjects request is sent only after a DownloadConfirmDialog opened
\* by open_download_confirm_dialog was confirmed.
C20_DirectoriesEnumerateFilesAskName ==
    /\ last \in {"Default/ObjectListDownloadObject",
                 "Default/ObjectListDownloadObjectAs"} =>
          /\ ~panicked
          /\ SelectedInRange
          /\ current_selected_item.kind = "Dir" =>
                /\ sent = <<EnumerationRequest(
                               last = "Default/ObjectListDownloadObjectAs")>>
                /\ view_state = ViewState_Default
    /\ ( /\ last = "Default/ObjectListDownloadObjectAs"
         /\ SelectedInRange
         /\ current_selected_item.kind = "File" ) =>
              /\ sent = <<>>
              /\ view_state = ViewState_SaveDialog(
                     ItemName(current_selected_item), <<>>)
    /\ BulkDownloadOnlyAfterConfirmation

\* 'download as' was triggered on a file: SaveDialog is open, nothing was sent
C20_Witness ==
    /\ last = "Default/ObjectListDownloadObjectAs"
    /\ SelectedInRange
    /\ current_selected_item.kind = "File"
    /\ view_state.tag = "SaveDialog"
    /\ sent = <<>>

\* the Default arms guarded by `if self.non_empty()`
GuardedBranches ==
    { "Default/" \o user_event :
        user_event \in { "ObjectListDown", "ObjectListUp", "ObjectListGoToTop",
                         "ObjectListGoToBottom", "ObjectListPageDown",
                         "ObjectListPageUp", "ObjectListSelect",
                         "ObjectListCopyObject", "ObjectListCopyDetails",
                         "ObjectListDownloadObject", "ObjectListDownloadObjectAs",
                         "ObjectListManagementConsole", "ObjectListRefresh" } }

\* C21: when view_indices is empty and the state is Default, no cursor
\* operation and no selection-dependent trigger runs its arm: a key that
\* carries only such events is handled as a no-op, which leaves the page
\* state unchanged and sends no event.
C21_EmptyProjectionNoOps ==
    [][ ( /\ view_state = ViewState_Default
          /\ view_indices = <<>>
          /\ <<sent, last, before>>' # <<sent, last, before>> )
            => /\ last' \notin GuardedBranches
               /\ last' = "Default/ignored" =>
                     /\ sent' = <<>>
                     /\ ~panicked'
                     /\ UNCHANGED <<object_items, view_state, projection>>
      ]_vars

\* a key was ignored in Default over a non-empty master list that the filter
\* has narrowed to nothing
C21_Witness ==
    /\ last = "Default/ignored"
    /\ view_state = ViewState_Default
    /\ view_indices = <<>>
    /\ object_items # <<>>
    /\ sent = <<>>

\* C22: no key event and no dialog-opening callback changes the master item
\* list: object_items keeps the items, in the order, passed to new.
C22_MasterListNeverChanges ==
    [][object_items' = object_items]_vars

\* a sort other than Default was applied to a filtered list of items whose
\* projection is not in master order
C22_Witness ==
    /\ last = "SortDialog/SelectDialogSelect"
    /\ filter_input_state # <<>>
    /\ Len(view_indices) >= 2
    /\ \E j \in 1..(Len(view_indices) - 1) : view_indices[j] > view_indices[j + 1]

\* C23: a dialog-opening callback (open_download_confirm_dialog,
\* open_paste_confirm_dialog) delivered while another dialog is active does
\* not replace that dialog or discard its payload.
C23_CallbackKeepsActiveDialog ==
    [][ ( /\ view_state # ViewState_Default
          /\ last' \in {"open_download_confirm_dialog", "open_paste_confirm_dialog"}
          /\ <<sent, last, before>>' # <<sent, last, before>> )
            => view_state' = view_state
      ]_vars

\* ------------------------------------------------------------------------
\* Properties of the dialog text wrapping helpers (checked under WrapSpec)
\* ------------------------------------------------------------------------
\* the lines joined in order
RECURSIVE Concat(_)
Concat(lines) == IF lines = <<>> THEN <<>> ELSE Head(lines) \o Concat(Tail(lines))

\* what follows the scheme prefix in the argument
WrapRest == SubSeq(wrap_s, Len(S3Prefix) + 1, Len(wrap_s))

\* the segments of the argument, empty ones included
WrapSegments == SplitSlash(WrapRest, <<>>)

\* a '/' at the start, at the end, or next to another '/'
HasEmptySegment(rest) ==
    /\ rest # <<>>
    /\ \/ rest[1] = "/"
       \/ rest[Len(rest)] = "/"
       \/ \E j \in 1..(Len(rest) - 1) : rest[j] = "/" /\ rest[j + 1] = "/"

\* the argument is an s3:// path too wide for the column
WrappedAsPath ==
    /\ StartsWith(wrap_s, S3Prefix)
    /\ StrWidth(wrap_s) > wrap_max_width

C25_NoLineWiderThanWidth ==
    wrap_called # "none" =>
        \A k \in 1..Len(wrap_lines) : StrWidth(wrap_lines[k]) <= wrap_max_width

\* C26: an input whose display width is at most the given width comes back
\* from wrap_s3_path_for_dialog as exactly one line equal to the input, with
\* or without the s3:// prefix and with empty path segments.
C26_FittingInputIsOneLine ==
    ( /\ wrap_called = "wrap_s3_path_for_dialog"
      /\ StrWidth(wrap_s) <= wrap_max_width )
        => wrap_lines = <<wrap_s>>

\* an s3:// path with an empty segment fitted the width
C26_Witness ==
    /\ wrap_called = "wrap_s3_path_for_dialog"
    /\ StartsWith(wrap_s, S3Prefix)
    /\ StrWidth(wrap_s) <= wrap_max_width
    /\ HasEmptySegment(WrapRest)
    /\ \E j \in 1..Len(WrapRest) : WrapRest[j] # "/"
    /\ wrap_lines = <<wrap_s>>

\* the non-empty members of a list of segments
RECURSIVE NonEmpty(_)
NonEmpty(segments) ==
    IF segments = <<>> THEN <<>>
    ELSE IF Head(segments) = <<>> THEN NonEmpty(Tail(segments))
    ELSE <<Head(segments)>> \o NonEmpty(Tail(segments))

\* the segments separated by single '/'
RECURSIVE JoinSlash(_)
JoinSlash(segments) ==
    IF segments = <<>> THEN <<>>
    ELSE IF Len(segments) = 1 THEN Head(segments)
    ELSE Head(segments) \o <<"/">> \o JoinSlash(Tail(segments))

\* C27: wrap_path_with_prefix drops the empty segments: apart from the '//'
\* inside the scheme prefix on the first line no returned line holds two
\* adjacent '/', and the lines concatenated are the prefix followed by the
\* non-empty segments of the input, once each, in order, separated by single
\* '/'.
C27_EmptySegmentsDropped ==
    wrap_called = "wrap_path_with_prefix" =>
        /\ \A k \in 1..Len(wrap_lines) :
              \A j \in 1..(Len(wrap_lines[k]) - 1) :
                 (wrap_lines[k][j] = "/" /\ wrap_lines[k][j + 1] = "/")
                    => (k = 1 /\ j = Len(S3Prefix) - 1)
        /\ Concat(wrap_lines) = S3Prefix \o JoinSlash(NonEmpty(WrapSegments))

\* the text the loop appends for segment number n (counted from 1)
Piece(n) ==
    IF WrapSegments[n] = <<>> THEN <<>>
    ELSE IF n = 1 THEN WrapSegments[n]
    ELSE <<"/">> \o WrapSegments[n]

\* the number of glyphs appended before segment number n
RECURSIVE PiecesBefore(_)
PiecesBefore(n) == IF n = 1 THEN 0 ELSE PiecesBefore(n - 1) + Len(Piece(n - 1))

\* the positions, in the concatenated lines, of the glyphs of segment n
SegmentFirst(n) == Len(S3Prefix) + PiecesBefore(n) + (IF n = 1 THEN 1 ELSE 2)
SegmentLast(n) == SegmentFirst(n) + Len(WrapSegments[n]) - 1

\* the positions, in the concatenated lines, of the last glyph of each line
\* but the last
LineEnds ==
    { Len(Concat(SubSeq(wrap_lines, 1, m))) : m \in 1..(Len(wrap_lines) - 1) }

\* segment n lies on one line
Intact(n) ==
    /\ Len(Concat(wrap_lines)) >= SegmentLast(n)
    /\ SubSeq(Concat(wrap_lines), SegmentFirst(n), SegmentLast(n)) = WrapSegments[n]
    /\ \A b \in LineEnds : ~(SegmentFirst(n) <= b /\ b < SegmentLast(n))

FitsWhereAppended(n) ==
    IF n = 1
    THEN \/ StrWidth(S3Prefix) + StrWidth(WrapSegments[n]) <= wrap_max_width
         \/ /\ StrWidth(S3Prefix) >= wrap_max_width
            /\ StrWidth(WrapSegments[n]) <= wrap_max_width
    ELSE 1 + StrWidth(WrapSegments[n]) <= wrap_max_width

FirstSegmentOverflows ==
    /\ WrapSegments[1] # <<>>
    /\ StrWidth(S3Prefix) + StrWidth(WrapSegments[1]) > wrap_max_width
    /\ StrWidth(S3Prefix) < wrap_max_width

\* C29: the first line returned by wrap_path_with_prefix starts with the
\* prefix, and when the first segment does not fit after the prefix but
\* columns remain, the first line is wider than the prefix.
C29_FirstLineFilled ==
    wrap_called = "wrap_path_with_prefix" =>
        /\ wrap_lines # <<>>
        /\ StartsWith(wrap_lines[1], S3Prefix)
        /\ FirstSegmentOverflows
              => StrWidth(wrap_lines[1]) > StrWidth(S3Prefix)

\* the width of the first glyph of s that takes a column
RECURSIVE FirstGlyphWidth(_)
FirstGlyphWidth(s) ==
    IF s = <<>> THEN 0
    ELSE IF CharWidth(Head(s)) > 0 THEN CharWidth(Head(s))
    ELSE FirstGlyphWidth(Tail(s))

\* C29 (amended): the first line returned by wrap_path_with_prefix starts
\* with the prefix, and when the first segment does not fit after the prefix
\* and its first glyph that takes a column fits in the columns remaining,
\* the first line is wider than the prefix.
C29_FirstLineFilledWhenGlyphFits ==
    wrap_called = "wrap_path_with_prefix" =>
        /\ wrap_lines # <<>>
        /\ StartsWith(wrap_lines[1], S3Prefix)
        /\ ( /\ FirstSegmentOverflows
             /\ StrWidth(S3Prefix) + FirstGlyphWidth(WrapSegments[1])
                    <= wrap_max_width )
              => StrWidth(wrap_lines[1]) > StrWidth(S3Prefix)

\* the head of the first segment filled the first line and its tail went on
C29_Witness ==
    /\ wrap_called = "wrap_path_with_prefix"
    /\ FirstSegmentOverflows
    /\ StrWidth(S3Prefix) + FirstGlyphWidth(WrapSegments[1]) <= wrap_max_width
    /\ Len(wrap_lines) >= 2
    /\ StrWidth(wrap_lines[1]) = wrap_max_width

\* C30: wrap_strict_by_char_width is greedy: each returned line but the last
\* is maximal, the first glyph of the next line would make it wider than the
\* width.
C30_StrictLinesMaximal ==
    wrap_called = "wrap_strict_by_char_width" =>
        \A k \in 1..(Len(wrap_lines) - 1) :
           /\ wrap_lines[k] # <<>>
           /\ wrap_lines[k + 1] # <<>>
           /\ StrWidth(wrap_lines[k]) + CharWidth(wrap_lines[k + 1][1])
                 > wrap_max_width

\* a line was cut short of the width because a wide glyph came next
C30_Witness ==
    /\ wrap_called = "wrap_strict_by_char_width"
    /\ Len(wrap_lines) >= 3
    /\ \E k \in 1..(Len(wrap_lines) - 1) :
          /\ StrWidth(wrap_lines[k]) < wrap_max_width
          /\ CharWidth(wrap_lines[k + 1][1]) = 2

\* ------------------------------------------------------------------------
\* Opening dialogs, key routing and the selected item
\* ------------------------------------------------------------------------
\* the latest step was a handler call
HandlerStep == <<sent, last, before>>' # <<sent, last, before>>

\* C31: opening the Filter dialog or the Sort dialog from Default changes
\* only the view state: view_indices, the cursor, the filter buffer and the
\* selected sort key stay as they were, and no event is emitted.
C31_OpenFilterOrSortChangesOnlyViewState ==
    [][ ( /\ HandlerStep
          /\ last' \in {"Default/ObjectListFilter", "Default/ObjectListSort"} )
            => /\ view_state = ViewState_Default
               /\ view_state' = IF last' = "Default/ObjectListFilter"
                                THEN ViewState_FilterDialog
                                ELSE ViewState_SortDialog
               /\ UNCHANGED <<object_items, projection>>
               /\ sent' = <<>>
      ]_vars

\* the Sort dialog was opened over a filtered projection that is sorted by a
\* key other than Default, with the cursor off the first item
C31_Witness ==
    /\ last = "Default/ObjectListSort"
    /\ view_state = ViewState_SortDialog
    /\ filter_input_state # <<>>
    /\ sort_dialog_state # SortDialogState_default
    /\ list_state.selected > 0

\* the dialogs routed by handle_user_events! (no default arm)
StrictDialogs ==
    {"SortDialog", "CopyDetailDialog", "DownloadConfirmDialog", "PasteConfirmDialog"}

\* the dialogs routed by handle_user_events_with_default!
TextEntryDialogs == {"FilterDialog", "GoToPathDialog", "SaveDialog"}

\* the list-navigation and operation events of the Default state
ObjectListEvents ==
    UserEvents \ { "Help", "Quit", "InputDialogClose", "InputDialogApply",
                   "SelectDialogClose", "SelectDialogDown", "SelectDialogUp",
                   "SelectDialogLeft", "SelectDialogRight", "SelectDialogSelect" }

\* the callbacks of the application
CallbackBranches == {"open_download_confirm_dialog", "open_paste_confirm_dialog"}

\* the input buffer of the active text-entry dialog
ActiveBuffer(vs, filter) == IF vs.tag = "FilterDialog" THEN filter ELSE vs.input

\* C32: key routing by active state. In a strict dialog (Sort, CopyDetail,
\* DownloadConfirm, PasteConfirm) a key without an arm in that dialog's table
\* leaves the whole page unchanged and emits nothing; in a text-entry dialog
\* (Filter, GoToPath, Save) such a key goes to the dialog's input buffer and
\* the dialog stays; the list-navigation and operation events have no arm
\* while a dialog is active, so no Default branch runs there.
C32_KeyRoutingByActiveState ==
    [][ ( /\ HandlerStep
          /\ view_state.tag # "Default"
          /\ last' \notin CallbackBranches )
            => /\ ObjectListEvents \cap Arms = {}
               /\ \A e \in ObjectListEvents : last' # "Default/" \o e
               /\ last' # "Default/ignored"
               /\ last' = view_state.tag \o "/ignored"
                     => /\ view_state.tag \in StrictDialogs
                        /\ UNCHANGED <<object_items, view_state, projection>>
                        /\ sent' = <<>>
                        /\ ~panicked'
               /\ last' = view_state.tag \o "/key"
                     => /\ view_state.tag \in TextEntryDialogs
                        /\ view_state'.tag = view_state.tag
                        /\ \E key_event \in KeyEvents :
                              ActiveBuffer(view_state', filter_input_state') =
                                 InputDialogState_handle_key_event(
                                    ActiveBuffer(view_state, filter_input_state),
                                    key_event)
                        /\ sent' = <<>>
                        /\ UNCHANGED <<object_items, sort_dialog_state>>
               /\ view_state.tag \in StrictDialogs
                     => last' # view_state.tag \o "/key"
               /\ view_state.tag \in TextEntryDialogs
                     => last' # view_state.tag \o "/ignored"
      ]_vars

\* a key without an arm was pressed in the download confirmation
C32_Witness ==
    /\ last = "DownloadConfirmDialog/ignored"
    /\ view_state.tag = "DownloadConfirmDialog"
    /\ before = view_state
    /\ sent = <<>>

\* C33: the out-of-range panic of current_selected_item is unreachable:
\* under every interleaving of keys with open_download_confirm_dialog and
\* open_paste_confirm_dialog, whenever the selected item is evaluated
\* view_indices is non-empty and the selected index is within it.
C33_SelectedItemAlwaysInRange ==
    panicked => SelectedInRange

\* C34: every DownloadObjects event emitted after an enumeration carries the
\* key and the directory name of the directory for which the enumeration was
\* requested, whatever cursor moves, filter edits or sort changes happened
\* between the request and the opening of DownloadConfirmDialog.
C34_DownloadCarriesRequestedDirectory ==
    ( /\ enumeration.answered # <<>>
      /\ sent # <<>>
      /\ sent[1].type = "DownloadObjects" )
        => /\ sent[1].key = enumeration.answered[1]
           /\ last = "DownloadConfirmDialog/SelectDialogSelect"
                 => sent[1].dir =
                       enumeration.answered[1].object_path[
                           Len(enumeration.answered[1].object_path)]

\* C35: whenever the view state is SaveDialog without a carried object set,
\* the selected projected item is a File, so the size_byte().unwrap() of
\* download_as cannot fail; 'download as' on a File opens this dialog
\* pre-filled with the file name and emits no event.
C35_SaveDialogWithoutSetSelectsFile ==
    /\ (view_state.tag = "SaveDialog" /\ view_state.objs = <<>>)
          => /\ SelectedInRange
             /\ current_selected_item.kind = "File"
             /\ ItemSizeByte(current_selected_item) # <<>>
    /\ (panicked /\ last = "SaveDialog/InputDialogApply")
          => before.objs # <<>>
    /\ ( /\ last = "Default/ObjectListDownloadObjectAs"
         /\ ~panicked
         /\ current_selected_item.kind = "File" )
          => /\ view_state = ViewState_SaveDialog(
                    InputDialogState_new(ItemName(current_selected_item)), <<>>)
             /\ sent = <<>>

\* the name of a file that is not the first item was edited in the dialog
\* opened by 'download as'
C35_Witness ==
    /\ view_state.tag = "SaveDialog"
    /\ view_state.objs = <<>>
    /\ last = "SaveDialog/key"
    /\ list_state.selected > 0
    /\ filter_input_state # <<>>
    /\ view_state.input # ItemName(current_selected_item)

\* C36: closing the sort picker with SelectDialogClose resets the selected
\* sort key to its initial value and re-sorts, so view_indices is the current
\* filtered set in ascending master index, whatever key was previewed or
\* applied before; applying with SelectDialogSelect keeps the highlighted key
\* and its ordering.
C36_SortCloseRestoresDefaultOrder ==
    [][ HandlerStep =>
          /\ last' = "SortDialog/SelectDialogClose"
                => /\ view_state' = ViewState_Default
                   /\ sort_dialog_state' = SortDialogState_default
                   /\ Len(view_indices') = Len(view_indices)
                   /\ Range(view_indices') = Range(view_indices)
                   /\ \A j \in 1..(Len(view_indices') - 1) :
                         view_indices'[j] < view_indices'[j + 1]
                   /\ view_indices' = FilterIndices(object_items, filter_input_state,
                                                   Len(object_items))
                   /\ UNCHANGED <<object_items, list_state, filter_input_state>>
          /\ last' = "SortDialog/SelectDialogSelect"
                => /\ view_state' = ViewState_Default
                   /\ sort_dialog_state' = sort_dialog_state
                   /\ view_indices' = view_indices
                   /\ UNCHANGED <<object_items, list_state, filter_input_state>>
      ]_vars

\* the picker was closed over a filtered projection of two items or more
C36_Witness ==
    /\ last = "SortDialog/SelectDialogClose"
    /\ view_state = ViewState_Default
    /\ sort_dialog_state = SortDialogState_default
    /\ filter_input_state # <<>>
    /\ Len(view_indices) >= 2
    /\ list_state.selected > 0

\* ------------------------------------------------------------------------
\* Properties of the program start (checked under StartupSpec)
\* ------------------------------------------------------------------------
\* the latest event get_profile read was a key with these properties
SubmitKeyRead ==
    /\ profile_event.kind = "Key"
    /\ AnyApply(profile_event.user_events)
    /\ ~AnyCancel(profile_event.user_events)

CancelKeyRead ==
    /\ profile_event.kind = "Key"
    /\ AnyCancel(profile_event.user_events)

PlainKeyRead ==
    /\ profile_event.kind = "Key"
    /\ ~AnyApply(profile_event.user_events)
    /\ ~AnyCancel(profile_event.user_events)

\* C37: get_profile never returns an empty profile: a submit whose trimmed
\* input is empty sets the 'Profile cannot be empty' error, stays in the loop
\* and returns nothing; Ok holds only a non-empty string equal to the trimmed
\* input; the next key that is neither submit nor cancel clears the error.
C37_ProfileNeverEmpty ==
    /\ (SubmitKeyRead /\ Trim(profile_state) = <<>>)
          => /\ profile_result = <<>>
             /\ main_pc = "get_profile/loop"
             /\ profile_error_msg = <<PROFILE_EMPTY_ERR>>
    /\ (SubmitKeyRead /\ Trim(profile_state) # <<>>)
          => profile_result = <<Ok(Trim(profile_state))>>
    /\ (profile_result # <<>> /\ profile_result[1].ok)
          => /\ profile_result[1].value # <<>>
             /\ profile_result[1].value = Trim(profile_state)
             /\ SubmitKeyRead
    /\ PlainKeyRead
          => /\ profile_error_msg = <<>>
             /\ profile_result = <<>>

\* a submit of blanks only was refused and the prompt goes on
C37_Witness ==
    /\ SubmitKeyRead
    /\ profile_state # <<>>
    /\ Trim(profile_state) = <<>>
    /\ profile_error_msg = <<PROFILE_EMPTY_ERR>>
    /\ main_pc = "get_profile/loop"

\* C38: in get_profile a key mapped to InputDialogClose or Quit ends the loop
\* with the error 'canceled' whatever the buffer holds, and cancellation wins
\* over submission: a key mapped to a cancel event and to InputDialogApply
\* returns the cancel error, never Ok.
C38_CancelWinsOverSubmit ==
    /\ CancelKeyRead => profile_result = <<Err("canceled")>>
    /\ (profile_result # <<>> /\ profile_result[1].ok)
          => ~AnyCancel(profile_event.user_events)
    /\ profile_result = <<Err("canceled")>> => CancelKeyRead

\* a key bound to submit and to a cancel event was pressed on a non-empty
\* input
C38_Witness ==
    /\ CancelKeyRead
    /\ AnyApply(profile_event.user_events)
    /\ Trim(profile_state) # <<>>
    /\ profile_result = <<Err("canceled")>>

\* C39: once main has initialised the terminal, ratatui::try_restore is
\* called before main returns, when the profile entry is cancelled or fails
\* and after the run loop ends with success or error; the call precedes the
\* return of the error.
C39_TerminalRestoredBeforeReturn ==
    [][ (main_pc' = "returned" /\ main_pc # "returned")
           => /\ main_terminal \in {"untouched", "restored", "restore_failed"}
              /\ main_terminal' = main_terminal
              /\ main_terminal = "untouched" => profile_result = <<>>
      ]_vars

\* main returned the cancel error of the prompt after restoring the terminal
C39_Witness ==
    /\ main_pc = "returned"
    /\ main_terminal = "restored"
    /\ main_result = <<Err("canceled")>>
    /\ profile_result = <<Err("canceled")>>

====
